---- MODULE Spec2Model ----
(***************************************************************************)
(* A state-machine model of vsnlogger: the configuration store            *)
(* (LogConfig), the sink factories (sinks::Create*Sink), and the logger   *)
(* registry (Logger::Initialize, GetDefaultLogger, Shutdown, ...).        *)
(* Strings are TLA+ strings; the parsing and conversion routines work on  *)
(* their characters as the C++ code does.                                 *)
(***************************************************************************)
EXTENDS Integers, Sequences, FiniteSets, TLC

VARIABLES
    m_configData,            \* LogConfig::m_configData: section -> (key -> value)
    g_sectionCount,          \* config_t.cpp: static g_sectionCount
    environ,                 \* the process environment read by std::getenv
    ms_defaultInstance,      \* Logger::ms_defaultInstance (NullPtr or a wrapper)
    ms_allocationCount,      \* Logger::ms_allocationCount
    g_sinkAllocationCount,   \* sinks_t.cpp: g_sinkAllocationCount
    registry,                \* spdlog's registry: name -> logger object
    emergencyLogger,         \* function-local static of GetDefaultLogger
    g_configMutex,           \* the store's g_configMutex (its owner, or Free)
    g_sinkMutex,             \* logger.cpp: g_sinkMutex (its owner, or Free)
    g_loggerMutex,           \* logger.cpp: g_loggerMutex (its owner, or Free)
    pc,                      \* thread -> the place it has reached in its call
    local,                   \* thread -> the arguments and locals of its call
    calls,                   \* thread -> the calls it has started
    ret                      \* what the last call returned to its caller

vars == <<m_configData, g_sectionCount, g_configMutex, environ,
          ms_defaultInstance,
          ms_allocationCount, g_sinkAllocationCount, registry,
          emergencyLogger, g_sinkMutex, g_loggerMutex, pc, local, calls,
          ret>>

configVars == <<m_configData, g_sectionCount, g_configMutex>>
loggerVars == <<ms_defaultInstance, ms_allocationCount, g_sinkAllocationCount,
                g_sinkMutex, registry, emergencyLogger>>
threadVars == <<g_loggerMutex, pc, local, calls>>

(***************************************************************************)
(* Program constants                                                       *)
(***************************************************************************)
k_maxSections == 32
k_maxEntriesPerSection == 64
k_maxKeyLength == 64
k_maxValueLength == 256
k_maxSinkAllocations == 64
k_maxLoggerAllocations == 32
k_maxSinks == 8
k_maxPathLen == 255
k_maxMessageLength == 256
INT32_MAX == 2147483647

(***************************************************************************)
(* Result codes (E_Result)                                                 *)
(***************************************************************************)
E_SUCCESS == "E_SUCCESS"
E_INVALID_PARAMETER == "E_INVALID_PARAMETER"
E_RESOURCE_UNAVAILABLE == "E_RESOURCE_UNAVAILABLE"
E_ALLOCATION_FAILED == "E_ALLOCATION_FAILED"
E_NOT_INITIALIZED == "E_NOT_INITIALIZED"
E_FILE_ERROR == "E_FILE_ERROR"
E_UNKNOWN_ERROR == "E_UNKNOWN_ERROR"

(***************************************************************************)
(* std::string helpers                                                     *)
(***************************************************************************)
CharAt(s, i) == SubSeq(s, i, i)

\* the string of n copies of c
RECURSIVE Rep(_, _)
Rep(c, n) ==
    IF n <= 0 THEN ""
    ELSE LET half == Rep(c, n \div 2)
         IN IF n % 2 = 0 THEN half \o half ELSE half \o half \o c

\* a length limit that is not applied
Truncate_Keeps(s, n) == s

\* s.substr(0, n)
Truncate(s, n) == IF Len(s) > n THEN SubSeq(s, 1, n) ELSE s

\* s.find_first_not_of(" \t"), 0 standing for npos
FindFirstNotOf(s) ==
    LET idx == {i \in 1..Len(s) : CharAt(s, i) \notin {" ", "\t"}}
    IN IF idx = {} THEN 0 ELSE CHOOSE i \in idx : \A j \in idx : i <= j

\* s.find_last_not_of(" \t"), 0 standing for npos
FindLastNotOf(s) ==
    LET idx == {i \in 1..Len(s) : CharAt(s, i) \notin {" ", "\t"}}
    IN IF idx = {} THEN 0 ELSE CHOOSE i \in idx : \A j \in idx : i >= j

\* the trimmed string; "" when the string holds only blanks
Trim(s) ==
    IF FindFirstNotOf(s) = 0 THEN ""
    ELSE SubSeq(s, FindFirstNotOf(s), FindLastNotOf(s))

UpperChars == "ABCDEFGHIJKLMNOPQRSTUVWXYZ"
LowerChars == "abcdefghijklmnopqrstuvwxyz"

\* std::tolower on one character
ToLowerChar(c) ==
    LET idx == {i \in 1..Len(UpperChars) : CharAt(UpperChars, i) = c}
    IN IF idx = {} THEN c ELSE CharAt(LowerChars, CHOOSE i \in idx : TRUE)

\* std::transform(..., tolower)
RECURSIVE ToLower(_)
ToLower(s) == IF s = "" THEN "" ELSE ToLowerChar(Head(s)) \o ToLower(Tail(s))

DigitChars == "0123456789"
IsDigit(c) == \E i \in 1..Len(DigitChars) : CharAt(DigitChars, i) = c
DigitVal(c) == (CHOOSE i \in 1..Len(DigitChars) : CharAt(DigitChars, i) = c) - 1

\* decimal rendering of a natural number (used to build names)
RECURSIVE NatToStr(_)
NatToStr(n) ==
    IF n < 10 THEN CharAt(DigitChars, n + 1)
    ELSE NatToStr(n \div 10) \o CharAt(DigitChars, (n % 10) + 1)

(***************************************************************************)
(* std::stoi, as used by LogConfig::GetInt32: leading white space, an      *)
(* optional sign, then the longest run of decimal digits; no digit is      *)
(* std::invalid_argument, a value outside int is std::out_of_range.        *)
(* The result is [ok |-> FALSE] for a throw, [ok |-> TRUE, val |-> n] else.*)
(***************************************************************************)
IsSpace(c) == c \in {" ", "\t", "\n", "\r", "\f"}

\* accumulates the digits from position i on as a negative number, so that
\* INT32_MIN is representable; "overflow" once the magnitude leaves int
RECURSIVE StoiDigits(_, _, _)
StoiDigits(s, i, accNeg) ==
    IF i > Len(s) \/ ~IsDigit(CharAt(s, i)) THEN [overflow |-> FALSE, neg |-> accNeg]
    ELSE LET d == DigitVal(CharAt(s, i)) IN
         IF accNeg < -((INT32_MAX - 7) \div 10)
            \/ (accNeg = -((INT32_MAX - 7) \div 10) /\ d > 8)
         THEN [overflow |-> TRUE, neg |-> 0]
         ELSE StoiDigits(s, i + 1, accNeg * 10 - d)

StoI(s) ==
    LET nonWs == {i \in 1..Len(s) : ~IsSpace(CharAt(s, i))}
        p1 == IF nonWs = {} THEN Len(s) + 1
              ELSE CHOOSE i \in nonWs : \A j \in nonWs : i <= j
        signed == p1 <= Len(s) /\ CharAt(s, p1) \in {"+", "-"}
        minus == signed /\ CharAt(s, p1) = "-"
        p2 == IF signed THEN p1 + 1 ELSE p1
        acc == StoiDigits(s, p2, 0)
    IN IF p2 > Len(s) \/ ~IsDigit(CharAt(s, p2)) THEN [ok |-> FALSE, val |-> 0]
       ELSE IF acc.overflow THEN [ok |-> FALSE, val |-> 0]
       ELSE IF minus THEN [ok |-> TRUE, val |-> acc.neg]
       ELSE IF acc.neg < -INT32_MAX THEN [ok |-> FALSE, val |-> 0]
       ELSE [ok |-> TRUE, val |-> -acc.neg]

(***************************************************************************)
(* The configuration table: std::map<string, std::map<string, string>>     *)
(***************************************************************************)
EmptySection == [k \in {} |-> ""]

\* m_configData[section] = std::map<...>() for a section not yet present
\* a table that keeps only "global" beside the section it adds
AddSection_Forgets(data, section) ==
    [s \in {"global", section} |->
        IF s \in DOMAIN data THEN data[s] ELSE EmptySection]

AddSection(data, section) ==
    [s \in DOMAIN data \cup {section} |->
        IF s \in DOMAIN data THEN data[s] ELSE EmptySection]

\* m_configData[section][key] = value, the section being present
PutEntry(data, section, key, value) ==
    [data EXCEPT ![section] =
        [k \in DOMAIN data[section] \cup {key} |->
            IF k = key THEN value ELSE data[section][k]]]

\* LogConfig::LogConfig: the "global" section, and g_sectionCount = 1
InitialConfigData == [s \in {"global"} |-> EmptySection]

(***************************************************************************)
(* LogConfig::LoadFromFile                                                 *)
(***************************************************************************)
\* std::regex_match(line, R"(\[(.*)\])"): '.' matches no line terminator
SectionMatch(line) ==
    /\ Len(line) >= 2
    /\ CharAt(line, 1) = "["
    /\ CharAt(line, Len(line)) = "]"
    /\ \A i \in 2..(Len(line) - 1) : CharAt(line, i) \notin {"\n", "\r"}

SectionCapture(line) == SubSeq(line, 2, Len(line) - 1)

EqualsAt(line) == {i \in 1..Len(line) : CharAt(line, i) = "="}

\* std::regex_match(line, R"(([^=]+)=([^=]*))"): exactly one '=', not first
KeyValueMatch(line) ==
    /\ Cardinality(EqualsAt(line)) = 1
    /\ \A i \in EqualsAt(line) : i >= 2

KeyCapture(line) == SubSeq(line, 1, (CHOOSE i \in EqualsAt(line) : TRUE) - 1)
ValueCapture(line) ==
    SubSeq(line, (CHOOSE i \in EqualsAt(line) : TRUE) + 1, Len(line))

\* one pass of the while (std::getline) loop body, on line number i; st is
\* [data, count, currentSection, stopped, at]: stopped once the loop has
\* returned E_RESOURCE_UNAVAILABLE, at line "at"
\* a cap test that lets one section more through
SectionCapReached_OffByOne(count) == count > k_maxSections

SectionCapReached(count) == count >= k_maxSections

LoadStep(st, raw, i) ==
    LET line == Trim(raw)
        key == Truncate(Trim(KeyCapture(line)), k_maxKeyLength)
        value == Truncate(Trim(ValueCapture(line)), k_maxValueLength)
    IN
    IF raw = "" \/ CharAt(raw, 1) \in {"#", ";"} THEN st
    ELSE IF FindFirstNotOf(raw) = 0 THEN st
    ELSE IF SectionMatch(line) THEN
        IF SectionCapReached(st.count)
        THEN [st EXCEPT !.stopped = TRUE, !.at = i]
        ELSE IF SectionCapture(line) \in DOMAIN st.data
        THEN [st EXCEPT !.currentSection = SectionCapture(line)]
        ELSE [st EXCEPT !.data = AddSection(st.data, SectionCapture(line)),
                        !.count = st.count + 1,
                        !.currentSection = SectionCapture(line)]
    ELSE IF KeyValueMatch(line) THEN
        IF FindFirstNotOf(KeyCapture(line)) = 0 THEN st
        ELSE IF Cardinality(DOMAIN st.data[st.currentSection])
                    >= k_maxEntriesPerSection
        THEN st
        ELSE [st EXCEPT !.data = PutEntry(st.data, st.currentSection, key, value)]
    ELSE st

\* the loop over lines lo..hi, in order, ending at the first return
RECURSIVE LoadRange(_, _, _, _)
LoadRange(st, lines, lo, hi) ==
    IF lo > hi THEN st
    ELSE IF lo = hi THEN LoadStep(st, lines[lo], lo)
    ELSE LET left == LoadRange(st, lines, lo, (lo + hi) \div 2)
         IN IF left.stopped THEN left
            ELSE LoadRange(left, lines, ((lo + hi) \div 2) + 1, hi)

\* the loop from "global" over all lines; "at" is the line the loop returned
\* from, 0 when it ran to the end of the file
LoadLines(data, count, lines) ==
    LET r == LoadRange([data |-> data, count |-> count,
                        currentSection |-> "global", stopped |-> FALSE,
                        at |-> 0], lines, 1, Len(lines))
    IN [data |-> r.data, count |-> r.count, at |-> r.at,
        result |-> IF r.stopped THEN E_RESOURCE_UNAVAILABLE ELSE E_SUCCESS]

\* the whole call; files is the file system (path -> lines), a path outside
\* its domain cannot be opened
LoadFromFile(data, count, files, configFile) ==
    IF configFile = ""
    THEN [data |-> data, count |-> count, result |-> E_INVALID_PARAMETER, at |-> 0]
    ELSE IF configFile \notin DOMAIN files
    THEN [data |-> data, count |-> count, result |-> E_FILE_ERROR, at |-> 0]
    ELSE LoadLines(data, count, files[configFile])

(***************************************************************************)
(* LogConfig::LoadFromEnv                                                  *)
(***************************************************************************)
EnvPrefixes == <<"VSNLOG_GLOBAL_", "VSNLOG_APP_">>
EnvOptions == <<"LOG_LEVEL", "FORMAT", "FILE_PATH", "MAX_SIZE">>

\* the variable names in the order the two nested loops visit them
EnvNames ==
    [n \in 1..(Len(EnvPrefixes) * Len(EnvOptions)) |->
        EnvPrefixes[((n - 1) \div Len(EnvOptions)) + 1]
            \o EnvOptions[((n - 1) % Len(EnvOptions)) + 1]]

\* std::regex_search(name, R"(^VSNLOG_([^_]+)_([^=]+)$)")
EnvSectionEnd(name) ==
    LET us == {i \in 8..Len(name) : CharAt(name, i) = "_"}
    IN IF us = {} THEN 0 ELSE CHOOSE i \in us : \A j \in us : i <= j

EnvMatch(name) ==
    /\ Len(name) >= 7 /\ SubSeq(name, 1, 7) = "VSNLOG_"
    /\ EnvSectionEnd(name) > 8
    /\ EnvSectionEnd(name) < Len(name)
    /\ \A i \in (EnvSectionEnd(name) + 1)..Len(name) : CharAt(name, i) # "="

EnvSection(name) == ToLower(SubSeq(name, 8, EnvSectionEnd(name) - 1))
EnvKey(name) == ToLower(SubSeq(name, EnvSectionEnd(name) + 1, Len(name)))

\* the loops from the n-th name on; env is the environment (name -> value)
RECURSIVE LoadEnvFrom(_, _, _, _, _)
LoadEnvFrom(data, count, env, foundAny, n) ==
    IF n > Len(EnvNames)
    THEN [data |-> data, count |-> count,
          result |-> IF foundAny THEN E_SUCCESS ELSE E_NOT_INITIALIZED]
    ELSE
    LET name == EnvNames[n]
        skip == LoadEnvFrom(data, count, env, foundAny, n + 1)
    IN
    IF name \notin DOMAIN env THEN skip
    ELSE IF ~EnvMatch(name) THEN skip
    ELSE
    LET section == EnvSection(name)
        isNew == section \notin DOMAIN data
        data1 == IF isNew THEN AddSection(data, section) ELSE data
        count1 == IF isNew THEN count + 1 ELSE count
        configKey == Truncate(EnvKey(name), k_maxKeyLength)
        valueStr == Truncate(env[name], k_maxValueLength)
    IN
    IF isNew /\ count >= k_maxSections
    THEN [data |-> data, count |-> count, result |-> E_RESOURCE_UNAVAILABLE]
    ELSE IF Cardinality(DOMAIN data1[section]) >= k_maxEntriesPerSection
    THEN LoadEnvFrom(data1, count1, env, foundAny, n + 1)
    ELSE LoadEnvFrom(PutEntry(data1, section, configKey, valueStr), count1,
                     env, TRUE, n + 1)

LoadFromEnv(data, count, env) == LoadEnvFrom(data, count, env, FALSE, 1)

(***************************************************************************)
(* LogConfig::GetString / GetInt32 / GetBool / Set                         *)
(***************************************************************************)
\* a lookup without the fallback to "global"
GetString_NoGlobalFallback(data, section, key, defaultValue) ==
    IF section = "" \/ key = "" THEN defaultValue
    ELSE IF section \in DOMAIN data /\ key \in DOMAIN data[section]
    THEN data[section][key]
    ELSE defaultValue

GetString(data, section, key, defaultValue) ==
    IF section = "" \/ key = "" THEN defaultValue
    ELSE IF section \in DOMAIN data /\ key \in DOMAIN data[section]
    THEN data[section][key]
    ELSE IF section # "global" /\ "global" \in DOMAIN data
            /\ key \in DOMAIN data["global"]
    THEN data["global"][key]
    ELSE defaultValue

GetInt32(data, section, key, defaultValue) ==
    LET value == GetString(data, section, key, "")
    IN IF value = "" THEN defaultValue
       ELSE IF StoI(value).ok THEN StoI(value).val
       ELSE defaultValue

GetBool(data, section, key, defaultValue) ==
    LET value == GetString(data, section, key, "")
    IN IF value = "" THEN defaultValue
       ELSE ToLower(value) \in {"true", "yes", "1", "on"}

\* a length check that turns away a key or value exactly at its limit
LengthViolated_OffByOne(key, value) ==
    Len(key) >= k_maxKeyLength \/ Len(value) >= k_maxValueLength

\* key.length() > k_maxKeyLength || value.length() > k_maxValueLength
LengthViolated(key, value) ==
    Len(key) > k_maxKeyLength \/ Len(value) > k_maxValueLength

\* a Set that stores a new key however many entries the section holds
Set_NoEntryCap(data, count, section, key, value) ==
    IF section = "" \/ key = "" \/ LengthViolated(key, value)
    THEN [data |-> data, count |-> count, result |-> E_INVALID_PARAMETER]
    ELSE IF section \in DOMAIN data
    THEN [data |-> PutEntry(data, section, key, value), count |-> count,
          result |-> E_SUCCESS]
    ELSE IF count >= k_maxSections
    THEN [data |-> data, count |-> count, result |-> E_RESOURCE_UNAVAILABLE]
    ELSE [data |-> PutEntry(AddSection(data, section), section, key, value),
          count |-> count + 1, result |-> E_SUCCESS]

Set(data, count, section, key, value) ==
    LET isNew == section \notin DOMAIN data
        data1 == IF isNew THEN AddSection(data, section) ELSE data
        count1 == IF isNew THEN count + 1 ELSE count
    IN
    IF section = "" \/ key = ""
    THEN [data |-> data, count |-> count, result |-> E_INVALID_PARAMETER]
    ELSE IF LengthViolated(key, value)
    THEN [data |-> data, count |-> count, result |-> E_INVALID_PARAMETER]
    ELSE IF isNew /\ count >= k_maxSections
    THEN [data |-> data, count |-> count, result |-> E_RESOURCE_UNAVAILABLE]
    ELSE IF key \notin DOMAIN data1[section]
            /\ Cardinality(DOMAIN data1[section]) >= k_maxEntriesPerSection
    THEN [data |-> data1, count |-> count1, result |-> E_RESOURCE_UNAVAILABLE]
    ELSE [data |-> PutEntry(data1, section, key, value), count |-> count1,
          result |-> E_SUCCESS]

(***************************************************************************)
(* sinks::Create*Sink.  A sink is known by the spdlog class it was made    *)
(* from; each factory takes the allocation count and gives the handle      *)
(* (NullPtr when absent) and the count it leaves.                          *)
(***************************************************************************)
\* an empty shared_ptr
NullPtr == [null |-> TRUE]

\* a cap test that lets one sink more through
SinkCapReached_OffByOne(count) == count > k_maxSinkAllocations

SinkCapReached(count) == count >= k_maxSinkAllocations

\* the result of a factory: made is FALSE when construction threw
SinkResult(count, kind, made) ==
    IF made THEN [sink |-> [class |-> kind], count |-> count + 1]
    ELSE [sink |-> NullPtr, count |-> count]

\* a console sink factory that starts counting anew at the cap
CreateConsoleSink_ResetsAtCap(count, colored) ==
    IF SinkCapReached(count) THEN [sink |-> NullPtr, count |-> 0]
    ELSE SinkResult(count, "stdout_color_sink_mt", TRUE)

CreateConsoleSink(count, colored) ==
    IF SinkCapReached(count) THEN [sink |-> NullPtr, count |-> count]
    ELSE SinkResult(count,
                    IF colored THEN "stdout_color_sink_mt" ELSE "stdout_sink_mt",
                    TRUE)

\* a file sink factory that counts the sink it could not open
CreateFileSink_CountsFailure(count, filename, rotate, ioOk) ==
    IF filename = "" \/ SinkCapReached(count)
    THEN [sink |-> NullPtr, count |-> count]
    ELSE [sink |-> IF ioOk THEN [class |-> "rotating_file_sink_mt"]
                   ELSE NullPtr,
          count |-> count + 1]

\* ioOk: the directory could be created and the file opened
CreateFileSink(count, filename, rotate, ioOk) ==
    IF filename = "" THEN [sink |-> NullPtr, count |-> count]
    ELSE IF SinkCapReached(count) THEN [sink |-> NullPtr, count |-> count]
    ELSE SinkResult(count,
                    IF rotate THEN "rotating_file_sink_mt" ELSE "basic_file_sink_mt",
                    ioOk)

CreateSyslogSink(count) ==
    IF SinkCapReached(count) THEN [sink |-> NullPtr, count |-> count]
    ELSE SinkResult(count, "syslog_sink_mt", TRUE)

CreateNullSink(count) ==
    IF SinkCapReached(count) THEN [sink |-> NullPtr, count |-> count]
    ELSE SinkResult(count, "null_sink_mt", TRUE)

\* sinks.push_back(sink) when the handle is present (and the vector not full)
PushSink(vec, sink) ==
    IF sink # NullPtr /\ Len(vec) < k_maxSinks THEN Append(vec, sink) ELSE vec

\* the vector CreateMultiSink returns, and the count it leaves
CreateMultiSink(count, console, logFile, syslog, ioOk) ==
    LET none == [sink |-> NullPtr, count |-> count]
        c1 == IF console THEN CreateConsoleSink(count, TRUE) ELSE none
        v1 == PushSink(<<>>, c1.sink)
        c2 == IF logFile # "" THEN CreateFileSink(c1.count, logFile, FALSE, ioOk)
              ELSE [sink |-> NullPtr, count |-> c1.count]
        v2 == PushSink(v1, c2.sink)
        c3 == IF syslog THEN CreateSyslogSink(c2.count)
              ELSE [sink |-> NullPtr, count |-> c2.count]
        v3 == PushSink(v2, c3.sink)
        c4 == IF v3 = <<>> THEN CreateConsoleSink(c3.count, TRUE)
              ELSE [sink |-> NullPtr, count |-> c3.count]
    IN [sinks |-> IF c4.sink # NullPtr THEN Append(v3, c4.sink) ELSE v3,
        count |-> c4.count]

(***************************************************************************)
(* spdlog's registry and the Logger class                                  *)
(***************************************************************************)
NoRegistry == [n \in {} |-> NullPtr]

\* spdlog::get(name)
\* a registry lookup that never finds a logger
SpdlogGet_NeverFinds(reg, name) == NullPtr

SpdlogGet(reg, name) == IF name \in DOMAIN reg THEN reg[name] ELSE NullPtr

\* spdlog::register_logger(logger); it throws for a name already there, which
\* no caller lets happen: each looks the name up first, under the same lock
RegisterLogger(reg, logger) ==
    [n \in DOMAIN reg \cup {logger.name} |->
        IF n = logger.name THEN logger ELSE reg[n]]

\* a limit that turns a larger sink vector away instead of cutting it
SinkLimit_Rejects(vec) == IF Len(vec) <= k_maxSinks THEN vec ELSE <<>>

\* the first k_maxSinks entries of a sink vector
SinkLimit(vec) == IF Len(vec) <= k_maxSinks THEN vec ELSE SubSeq(vec, 1, k_maxSinks)

LoggerAllocCapReached(alloc) == alloc >= k_maxLoggerAllocations

\* Logger::Logger(const std::string& name): threw is TRUE when the
\* constructor leaves by an exception
LoggerCtor(reg, alloc, sinkCount, name) ==
    LET c == CreateConsoleSink(sinkCount, TRUE)
        logger == [name |-> name, sinks |-> <<c.sink>>]
        unchanged == [threw |-> TRUE, m_logger |-> NullPtr, registry |-> reg,
                      alloc |-> alloc, sinkCount |-> sinkCount]
    IN IF LoggerAllocCapReached(alloc) THEN unchanged
       ELSE IF SpdlogGet(reg, name) # NullPtr
       THEN [threw |-> FALSE, m_logger |-> SpdlogGet(reg, name), registry |-> reg,
             alloc |-> alloc, sinkCount |-> sinkCount]
       ELSE IF c.sink = NullPtr THEN unchanged
       ELSE [threw |-> FALSE, m_logger |-> logger,
             registry |-> RegisterLogger(reg, logger),
             alloc |-> alloc + 1, sinkCount |-> c.count]

\* Logger::Logger(const std::string& name, const std::string& logFilePath)
LoggerCtorFile(reg, alloc, sinkCount, name, logFilePath, ioOk) ==
    LET m == CreateMultiSink(sinkCount, TRUE, logFilePath, FALSE, ioOk)
        logger == [name |-> name, sinks |-> SinkLimit(m.sinks)]
    IN IF LoggerAllocCapReached(alloc)
       THEN [threw |-> TRUE, m_logger |-> NullPtr, registry |-> reg,
             alloc |-> alloc, sinkCount |-> sinkCount]
       ELSE IF SpdlogGet(reg, name) # NullPtr
       THEN [threw |-> FALSE, m_logger |-> SpdlogGet(reg, name), registry |-> reg,
             alloc |-> alloc, sinkCount |-> sinkCount]
       ELSE IF m.sinks = <<>>
       THEN [threw |-> TRUE, m_logger |-> NullPtr, registry |-> reg,
             alloc |-> alloc, sinkCount |-> m.count]
       ELSE [threw |-> FALSE, m_logger |-> logger,
             registry |-> RegisterLogger(reg, logger),
             alloc |-> alloc + 1, sinkCount |-> m.count]

(***************************************************************************)
(* Logger::Initialize, between taking and releasing g_loggerMutex          *)
(***************************************************************************)
\* the length test Initialize makes before it builds the log-file path
PathTooLong(configuredLogDir, appName) ==
    (Len(configuredLogDir) + Len(appName) + 4 + 2) > k_maxPathLen

LogFilePath(configuredLogDir, appName) ==
    configuredLogDir \o "/" \o appName \o "/" \o appName \o ".log"

\* a sink vector under construction: acc is [vec, count], r what a factory gave
AddSink(acc, r) ==
    [vec |-> IF r.sink # NullPtr THEN Append(acc.vec, r.sink) ELSE acc.vec,
     count |-> r.count]

\* if (useConsole) { ... }
WithConsole(acc, useConsole, useColors) ==
    IF useConsole THEN AddSink(acc, CreateConsoleSink(acc.count, useColors))
    ELSE acc

\* if (useFile && !logFilePath.empty()) { ... }
WithFile(acc, useFile, logFilePath, ioOk) ==
    IF useFile /\ logFilePath # ""
    THEN AddSink(acc, CreateFileSink(acc.count, logFilePath, TRUE, ioOk))
    ELSE acc

\* if (useSyslog) { ... }
WithSyslog(acc, useSyslog) ==
    IF useSyslog THEN AddSink(acc, CreateSyslogSink(acc.count)) ELSE acc

\* if (sinkVec.empty()) { ... }: the console sink of last resort
WithFallback(acc, useColors) ==
    IF acc.vec = <<>> THEN AddSink(acc, CreateConsoleSink(acc.count, useColors))
    ELSE acc

\* the sinks collected for a new logger under the toggles opt, and the count
\* that leaves
CollectSinks(sinkCount, opt, logFilePath, ioOk) ==
    WithFallback(
        WithSyslog(
            WithFile(
                WithConsole([vec |-> <<>>, count |-> sinkCount],
                            opt.useConsole, opt.useColors),
                opt.useFile, logFilePath, ioOk),
            opt.useSyslog),
        opt.useColors)

\* a promotion that keeps the default logger the process already has
Promote_KeepsFirst(current, logger) ==
    IF current # NullPtr THEN current ELSE [m_logger |-> logger]

\* ms_defaultInstance = std::make_shared<Logger>(logger): the wrapper of
\* logger replaces whatever the default was
Promote(current, logger) == [m_logger |-> logger]

\* Initialize after the toggles are read: opt is [useConsole, useFile,
\* useSyslog, useColors, configuredLogDir], e what LoadFromEnv left
\* an Initialize that looks at the length of the path after it has created
\* the sinks
InitializeWith_ChecksPathLast(st, e, opt, appName, logDir, ioOk) ==
    [data |-> e.data, count |-> e.count, registry |-> st.registry,
     defaultInstance |-> st.defaultInstance,
     sinkCount |-> CollectSinks(st.sinkCount, opt,
                                LogFilePath(opt.configuredLogDir, appName),
                                ioOk).count,
     result |-> IF opt.useFile /\ PathTooLong(opt.configuredLogDir, appName)
                THEN E_INVALID_PARAMETER ELSE E_UNKNOWN_ERROR,
     reused |-> FALSE, useFile |-> opt.useFile, logFilePath |-> ""]

InitializeWith(st, e, opt, appName, logDir, ioOk) ==
    LET logFilePath == IF opt.useFile
                       THEN LogFilePath(opt.configuredLogDir, appName) ELSE ""
        existingLogger == SpdlogGet(st.registry, appName)
        made == CollectSinks(st.sinkCount, opt, logFilePath, ioOk)
        logger == [name |-> appName, sinks |-> SinkLimit(made.vec)]
    IN IF opt.useFile /\ PathTooLong(opt.configuredLogDir, appName)
       THEN [data |-> e.data, count |-> e.count, registry |-> st.registry,
             defaultInstance |-> st.defaultInstance,
             sinkCount |-> st.sinkCount,
             result |-> E_INVALID_PARAMETER, reused |-> FALSE,
             useFile |-> opt.useFile, logFilePath |-> ""]
       ELSE IF existingLogger # NullPtr
       THEN [data |-> e.data, count |-> e.count, registry |-> st.registry,
             defaultInstance |-> Promote(st.defaultInstance, existingLogger),
             sinkCount |-> st.sinkCount,
             result |-> E_SUCCESS, reused |-> TRUE,
             useFile |-> opt.useFile, logFilePath |-> logFilePath]
       ELSE [data |-> e.data, count |-> e.count,
             registry |-> RegisterLogger(st.registry, logger),
             defaultInstance |-> Promote(st.defaultInstance, logger),
             sinkCount |-> made.count,
             result |-> E_SUCCESS, reused |-> FALSE,
             useFile |-> opt.useFile, logFilePath |-> logFilePath]

\* the toggles Initialize reads from the loaded configuration
ReadOptions(data, appName, logDir) ==
    [configuredLogDir |-> GetString(data, "global", "log_dir", logDir),
     useConsole |-> GetBool(data, appName, "console_output", TRUE),
     useFile |-> GetBool(data, appName, "file_output", TRUE),
     useSyslog |-> GetBool(data, appName, "syslog_output", FALSE),
     useColors |-> GetBool(data, appName, "use_colors", TRUE)]

InitializeLoaded(st, e, appName, logDir, ioOk) ==
    InitializeWith(st, e, ReadOptions(e.data, appName, logDir),
                   appName, logDir, ioOk)

\* an input validation that forgets the directory
EmptyArgument_NameOnly(appName, logDir) == appName = ""

\* appName.empty() || logDir.empty()
EmptyArgument(appName, logDir) == appName = "" \/ logDir = ""

\* st is [data, count, registry, defaultInstance, sinkCount]; the result is
\* the state the call leaves, its result code, and what it did on the way
\* static_cast<E_LogLevel>(config.GetInt32(appName, "log_level", level)):
\* E_LogLevel is a std::uint8_t enumeration, and the value goes to
\* spdlog::set_level as it is
ConfiguredLevel(data, appName, level) ==
    GetInt32(data, appName, "log_level", level) % 256

Initialize(st, env, appName, logDir, level, ioOk) ==
    IF EmptyArgument(appName, logDir)
    THEN [data |-> st.data, count |-> st.count, registry |-> st.registry,
          defaultInstance |-> st.defaultInstance, sinkCount |-> st.sinkCount,
          result |-> E_INVALID_PARAMETER, reused |-> FALSE,
          useFile |-> FALSE, logFilePath |-> ""]
    ELSE InitializeLoaded(st, LoadFromEnv(st.data, st.count, env),
                          appName, logDir, ioOk)

(***************************************************************************)
(* Logger::LogWithLocation.  A format string is [null, text]; engineThrows *)
(* says whether spdlog's log() raises on this call.                        *)
(***************************************************************************)
\* a check that lets the exception of the engine leave the call
LogWithLocation_NoCatch(self, level, fmt, engineThrows) ==
    IF self.m_logger = NullPtr
    THEN [result |-> E_NOT_INITIALIZED, dispatched |-> FALSE, threw |-> FALSE]
    ELSE IF fmt.null \/ Len(fmt.text) > k_maxMessageLength
    THEN [result |-> E_INVALID_PARAMETER, dispatched |-> FALSE, threw |-> FALSE]
    ELSE [result |-> E_SUCCESS, dispatched |-> TRUE, threw |-> engineThrows]

\* a length test that turns a format string of 256 characters away
FmtTooLong_OffByOne(fmtLen) == fmtLen >= k_maxMessageLength

FmtTooLong(fmtLen) == fmtLen > k_maxMessageLength

\* the result code, whether m_logger->log was called, and whether an
\* exception left the call
LogWithLocation(self, level, fmt, engineThrows) ==
    IF self.m_logger = NullPtr
    THEN [result |-> E_NOT_INITIALIZED, dispatched |-> FALSE, threw |-> FALSE]
    ELSE IF fmt.null
    THEN [result |-> E_INVALID_PARAMETER, dispatched |-> FALSE, threw |-> FALSE]
    ELSE IF FmtTooLong(Len(fmt.text))
    THEN [result |-> E_INVALID_PARAMETER, dispatched |-> FALSE, threw |-> FALSE]
    ELSE IF engineThrows
    THEN [result |-> E_UNKNOWN_ERROR, dispatched |-> TRUE, threw |-> FALSE]
    ELSE [result |-> E_SUCCESS, dispatched |-> TRUE, threw |-> FALSE]

\* Trace .. Critical, each with the level it passes on
LevelOf ==
    [m \in {"Trace", "Debug", "Info", "Warn", "Error", "Critical"} |->
        CASE m = "Trace" -> 0 [] m = "Debug" -> 1 [] m = "Info" -> 2
          [] m = "Warn" -> 3 [] m = "Error" -> 4 [] m = "Critical" -> 5]

(***************************************************************************)
(* Logger::GetDefaultLogger and Logger::Shutdown                           *)
(***************************************************************************)
\* st is [registry, defaultInstance, alloc, sinkCount, emergency]; the result
\* is the state the call leaves, threw (TRUE when the call leaves by an
\* exception), handle (what it returns) and warned (the warning record was
\* handed to the engine of the new logger)
DefaultWarning == "Using uninitialized default logger. Call VSN_INIT_LOGGING first."

GetDefaultLogger(st) ==
    LET d == LoggerCtor(st.registry, st.alloc, st.sinkCount, "default")
        m == LoggerCtor(st.registry, st.alloc, st.sinkCount, "emergency")
        same == [registry |-> st.registry, alloc |-> st.alloc,
                 sinkCount |-> st.sinkCount,
                 defaultInstance |-> st.defaultInstance,
                 emergency |-> st.emergency,
                 threw |-> FALSE, handle |-> NullPtr, warned |-> FALSE]
    IN IF st.defaultInstance # NullPtr
       THEN [same EXCEPT !.handle = st.defaultInstance]
       ELSE IF ~d.threw
       THEN [same EXCEPT !.registry = d.registry, !.alloc = d.alloc,
                         !.sinkCount = d.sinkCount,
                         !.defaultInstance = [m_logger |-> d.m_logger],
                         !.handle = [m_logger |-> d.m_logger],
                         !.warned =
                             LogWithLocation([m_logger |-> d.m_logger],
                                             LevelOf["Warn"],
                                             [null |-> FALSE,
                                              text |-> DefaultWarning],
                                             FALSE).dispatched]
       ELSE IF st.emergency # NullPtr
       THEN [same EXCEPT !.handle = st.emergency]
       ELSE IF ~m.threw
       THEN [same EXCEPT !.registry = m.registry, !.alloc = m.alloc,
                         !.sinkCount = m.sinkCount,
                         !.emergency = [m_logger |-> m.m_logger],
                         !.handle = [m_logger |-> m.m_logger]]
       ELSE [same EXCEPT !.threw = TRUE]

(***************************************************************************)
(* formatters::GetPattern                                                  *)
(***************************************************************************)
\* E_FormatType, a std::uint8_t
E_JSON == 0
E_CONSOLE == 1
E_SIMPLE == 2
E_MINIMAL == 3
E_COLORED == 4
E_DETAILED == 5
E_DEFAULT == 6

DefaultPattern == "%Y-%m-%d %H:%M:%S.%f %z [%^%l%$] [%n] [%t] %v"

\* a switch without its default label: pattern stays what the caller passed
GetPatternByType_NoDefault(formatType, pattern) ==
    [result |-> E_SUCCESS,
     pattern |-> IF formatType = E_MINIMAL THEN "%^%l%$ %v" ELSE pattern]

\* a switch whose detailed case carries the colored pattern
GetPatternByType_DetailedAsColored(formatType, pattern) ==
    [result |-> E_SUCCESS,
     pattern |->
        CASE formatType = E_JSON -> "{\"message\":\"%v\"}"
          [] formatType = E_SIMPLE -> "[%Y-%m-%d %H:%M:%S.%f] [%^%l%$] %v"
          [] formatType = E_MINIMAL -> "%^%l%$ %v"
          [] formatType \in {E_COLORED, E_DETAILED} -> "[%g:%#] %v"
          [] OTHER -> DefaultPattern]

\* GetPattern(E_FormatType, std::string&): the switch
GetPatternByType(formatType, pattern) ==
    [result |-> E_SUCCESS,
     pattern |->
        CASE formatType = E_JSON ->
                "{\"timestamp\":\"%Y-%m-%dT%H:%M:%S.%fZ\",\"level\":\"%^%l%$\","
                    \o "\"logger\":\"%n\",\"thread\":\"%t\",\"message\":\"%v\"}"
          [] formatType = E_CONSOLE ->
                "%Y-%m-%d %H:%M:%S.%f %z [%^%l%$] [%n] [%t] %v"
          [] formatType = E_SIMPLE -> "[%Y-%m-%d %H:%M:%S.%f] [%^%l%$] %v"
          [] formatType = E_MINIMAL -> "%^%l%$ %v"
          [] formatType = E_COLORED ->
                "%Y-%m-%d %H:%M:%S.%f %z [%^%-8l%$] [%-10n] [%-5P %-5t] "
                    \o "[%g:%#] %v"
          [] formatType = E_DETAILED ->
                "%Y-%m-%d %H:%M:%S.%f %z [%^%-8l%$] [%-10n] [%-5P %-5t] "
                    \o "[%g:%#:%!()] %v"
          [] OTHER -> DefaultPattern]

\* the if / else-if chain from a name to its enumerator
FormatTypeOf(formatName) ==
    CASE formatName = "json" -> E_JSON
      [] formatName = "console" -> E_CONSOLE
      [] formatName = "simple" -> E_SIMPLE
      [] formatName = "minimal" -> E_MINIMAL
      [] formatName = "colored" -> E_COLORED
      [] formatName = "detailed" -> E_DETAILED
      [] OTHER -> E_DEFAULT

\* GetPattern(const std::string&, std::string&); pattern is what the caller's
\* string holds before the call
GetPattern(formatName, pattern) ==
    IF formatName = ""
    THEN [result |-> E_INVALID_PARAMETER, pattern |-> pattern]
    ELSE GetPatternByType(FormatTypeOf(formatName), pattern)

(***************************************************************************)
(* formatters::ToJson / ToSyslog / ToConsole.  The strings of the          *)
(* formatters are sequences of character codes 0 .. 255, so that control   *)
(* characters can be told apart.                                           *)
(***************************************************************************)
k_maxFields == 32
k_maxComponentLength == 32

\* the printable characters of codes 32 .. 95 and 97 .. 126
AsciiLow == " !\"#$%&'()*+,-./0123456789:;<=>?@ABCDEFGHIJKLMNOPQRSTUVWXYZ[\\]^_"
AsciiHigh == "abcdefghijklmnopqrstuvwxyz{|}~"

AsciiTable ==
    [ch \in {CharAt(AsciiLow, k) : k \in 1..Len(AsciiLow)}
            \cup {CharAt(AsciiHigh, k) : k \in 1..Len(AsciiHigh)} |->
        IF \E k \in 1..Len(AsciiLow) : CharAt(AsciiLow, k) = ch
        THEN 31 + (CHOOSE k \in 1..Len(AsciiLow) : CharAt(AsciiLow, k) = ch)
        ELSE 96 + (CHOOSE k \in 1..Len(AsciiHigh) : CharAt(AsciiHigh, k) = ch)]

CodeOf(ch) == AsciiTable[ch]

\* the codes of a string literal
Codes(str) == [i \in 1..Len(str) |-> CodeOf(CharAt(str, i))]

\* the literals the formatters write
JsonTimestampOpen == Codes("{\"timestamp\":\"")
JsonLevelOpen == Codes("\"level\":\"")
JsonComponentOpen == Codes("\"component\":\"")
JsonMessageOpen == Codes("\"message\":\"")
JsonFieldOpen == Codes(",\"")
JsonFieldMiddle == Codes("\":\"")
JsonValueEnd == Codes("\",")
JsonQuote == Codes("\"")
JsonClose == Codes("}")
SyslogDefaultComponent == Codes("vsnlogger")
BracketOpen == Codes("[")
BracketClose == Codes("] ")
LevelNames ==
    [n \in {"trace", "debug", "info", "warn", "error", "critical"} |-> Codes(n)]

\* "%x" of a value below 16
HexDigit(d) == IF d < 10 THEN 48 + d ELSE 87 + d

\* an escaping that lets the backslash through as it is
EscapeChar_NoBackslash(c) ==
    IF c = 34 THEN <<92, 34>>
    ELSE IF c < 32 THEN <<92, 117, 48, 48, HexDigit(c \div 16), HexDigit(c % 16)>>
    ELSE <<c>>

\* one pass of the loop of JsonEscapeString: what is appended for c
EscapeChar(c) ==
    IF c = 34 THEN <<92, 34>>
    ELSE IF c = 92 THEN <<92, 92>>
    ELSE IF c = 10 THEN <<92, 110>>
    ELSE IF c = 13 THEN <<92, 114>>
    ELSE IF c = 9 THEN <<92, 116>>
    ELSE IF c = 8 THEN <<92, 98>>
    ELSE IF c = 12 THEN <<92, 102>>
    ELSE IF c < 32
    THEN <<92, 117, 48, 48, HexDigit(c \div 16), HexDigit(c % 16)>>
    ELSE <<c>>

RECURSIVE EscapeRange(_, _, _)
EscapeRange(input, lo, hi) ==
    IF lo > hi THEN <<>>
    ELSE IF lo = hi THEN EscapeChar(input[lo])
    ELSE EscapeRange(input, lo, (lo + hi) \div 2)
             \o EscapeRange(input, ((lo + hi) \div 2) + 1, hi)

JsonEscapeString(input) == EscapeRange(input, 1, Len(input))

\* the loop over the additional fields, a std::map iterated in key order:
\* fields is the sequence of its <<key, value>> pairs in that order
RECURSIVE JsonFields(_, _, _)
JsonFields(fields, i, fieldCount) ==
    IF i > Len(fields) \/ i > fieldCount THEN <<>>
    ELSE JsonFieldOpen \o JsonEscapeString(fields[i][1]) \o JsonFieldMiddle
             \o JsonEscapeString(fields[i][2]) \o JsonQuote
             \o JsonFields(fields, i + 1, fieldCount)

\* ToJson with additional fields; timestamp is what GetCurrentTimestamp gave
\* and result what the caller's string holds before the call
ToJson(message, level, component, additionalFields, timestamp, result) ==
    IF message = <<>> \/ level = <<>>
    THEN [result |-> E_INVALID_PARAMETER, text |-> result]
    ELSE [result |-> E_SUCCESS,
          text |->
             JsonTimestampOpen \o timestamp \o JsonValueEnd
                 \o JsonLevelOpen \o JsonEscapeString(level) \o JsonValueEnd
                 \o (IF component # <<>>
                     THEN JsonComponentOpen \o JsonEscapeString(component)
                              \o JsonValueEnd
                     ELSE <<>>)
                 \o JsonMessageOpen \o JsonEscapeString(message) \o JsonQuote
                 \o JsonFields(additionalFields, 1,
                               IF Len(additionalFields) <= k_maxFields
                               THEN Len(additionalFields) ELSE k_maxFields)
                 \o JsonClose]

\* the syslog priority of a level name, as a character code
SyslogPriority(level) ==
    IF level = LevelNames["trace"] \/ level = LevelNames["debug"] THEN 55
    ELSE IF level = LevelNames["info"] THEN 54
    ELSE IF level = LevelNames["warn"] THEN 52
    ELSE IF level = LevelNames["error"] THEN 51
    ELSE IF level = LevelNames["critical"] THEN 50
    ELSE 54

ToSyslog(message, level, component, timestamp, result) ==
    IF message = <<>> \/ level = <<>>
    THEN [result |-> E_INVALID_PARAMETER, text |-> result]
    ELSE [result |-> E_SUCCESS,
          text |->
             <<60, SyslogPriority(level), 62>> \o timestamp \o <<32>>
                 \o (IF component = <<>> THEN SyslogDefaultComponent
                     ELSE IF Len(component) <= k_maxComponentLength
                     THEN component
                     ELSE SubSeq(component, 1, k_maxComponentLength))
                 \o <<58, 32>> \o message]

ToConsole(message, level, component, timestamp, result) ==
    IF message = <<>> \/ level = <<>>
    THEN [result |-> E_INVALID_PARAMETER, text |-> result]
    ELSE [result |-> E_SUCCESS,
          text |->
             BracketOpen \o timestamp \o BracketClose
                 \o BracketOpen \o level \o BracketClose
                 \o (IF component # <<>>
                     THEN BracketOpen \o component \o BracketClose ELSE <<>>)
                 \o message]

(***************************************************************************)
(* The environment of the configuration store: the files it can be asked   *)
(* to load and the environment variables of the process.                   *)
(***************************************************************************)
NumHeaders == 33

AppConf ==
    << "# vsnlogger configuration",
       "; another comment",
       "",
       "log_dir = /tmp/logs",
       "  log_level=2  ",
       "[svc]",
       "console_output = false",
       "num = 42",
       "neg=-7",
       "junk = 12abc",
       "word=abc",
       "big=99999999999",
       "yes = Yes",
       "maybe=maybe",
       "empty =",
       "novalue",
       "a=b=c",
       " \t ",
       "[]",
       "orphan=1" >>

\* n distinct section headers [s1] .. [sn], each followed by one entry
ManyConf(n) ==
    [i \in 1..(2 * n) |->
        IF i % 2 = 1 THEN "[s" \o NatToStr((i + 1) \div 2) \o "]"
        ELSE "id=" \o NatToStr(i \div 2)]

\* log_level and as many entries more as fill the "global" section
FullConf ==
    <<"log_level=1">> \o
    [i \in 1..(k_maxEntriesPerSection - 1) |-> "k" \o NatToStr(i) \o "=v"]

\* keys and values at and beyond the length limits
LongConf ==
    << Rep("a", k_maxKeyLength) \o "=" \o Rep("x", k_maxValueLength),
       Rep("b", k_maxKeyLength + 1) \o " = " \o Rep("y", k_maxValueLength + 1),
       "  " \o Rep("c", k_maxKeyLength + 36) \o "=short",
       "path=" \o Rep("z", k_maxValueLength + 44) \o "  " >>

FileSystem ==
    [f \in {"app.conf", "many.conf", "gfirst.conf", "full.conf",
            "long.conf"} |->
        CASE f = "app.conf" -> AppConf
          [] f = "many.conf" -> ManyConf(NumHeaders)
          [] f = "gfirst.conf" -> <<"[global]">> \o ManyConf(NumHeaders)
          [] f = "full.conf" -> FullConf
          [] f = "long.conf" -> LongConf]

\* the paths the application passes: files of a few lines, and all of them
SmallFileNames == {"app.conf", "missing.conf", ""}
FileNames == {"app.conf", "many.conf", "gfirst.conf"} \cup SmallFileNames

EmptyEnv == [n \in {} |-> ""]

EnvChoices ==
    { EmptyEnv,
      [n \in {"VSNLOG_GLOBAL_LOG_LEVEL"} |-> "3"],
      [n \in {"VSNLOG_APP_FORMAT", "VSNLOG_GLOBAL_FILE_PATH"} |->
          IF n = "VSNLOG_APP_FORMAT" THEN "json" ELSE "/env/path.log"] }

\* the threads of the application, and the calls each of them makes
Threads == {"t1", "t2"}
MaxCalls == 2
Free == "free"
NoOptions ==
    [configuredLogDir |-> "", useConsole |-> FALSE, useFile |-> FALSE,
     useSyslog |-> FALSE, useColors |-> FALSE]
NoLocals ==
    [ref |-> "none", appName |-> "", configFile |-> "", op |-> "none",
     section |-> "", key |-> "", value |-> "", seen |-> 0, opt |-> NoOptions]

\* the environments of the runs that look at the variables themselves: the
\* documented names, the names LoadFromEnv asks for, and a value longer than
\* a stored value may be
EnvOverrides ==
    { [n \in {"VSNLOG_GLOBAL_LOG_LEVEL"} |-> "3"],
      [n \in {"VSNLOG_GLOBAL_LOG_DIR", "VSNLOG_APP_CONSOLE_OUTPUT",
              "VSNLOG_APP_FILE_OUTPUT"} |->
          IF n = "VSNLOG_GLOBAL_LOG_DIR" THEN "/env/logs" ELSE "false"],
      [n \in {"VSNLOG_APP_FORMAT", "VSNLOG_APP_FILE_PATH",
              "VSNLOG_APP_MAX_SIZE", "VSNLOG_GLOBAL_LOG_LEVEL"} |->
          CASE n = "VSNLOG_APP_FORMAT" -> "json"
            [] n = "VSNLOG_APP_FILE_PATH" -> "/env/app.log"
            [] n = "VSNLOG_APP_MAX_SIZE" -> "1048576"
            [] n = "VSNLOG_GLOBAL_LOG_LEVEL" -> "4"],
      [n \in {"VSNLOG_GLOBAL_FILE_PATH"} |-> "/" \o Rep("p", 299)] }

\* the state after static initialisation, in one of the environments envs
InitIn(envs) ==
    /\ m_configData = InitialConfigData
    /\ g_sectionCount = 1
    /\ g_configMutex = Free
    /\ environ \in envs
    /\ ms_defaultInstance = NullPtr
    /\ ms_allocationCount = 0
    /\ g_sinkAllocationCount = 0
    /\ g_sinkMutex = Free
    /\ registry = NoRegistry
    /\ emergencyLogger = NullPtr
    /\ g_loggerMutex = Free
    /\ pc = [t \in Threads |-> "idle"]
    /\ local = [t \in Threads |-> NoLocals]
    /\ calls = [t \in Threads |-> 0]
    /\ ret = [op |-> "none"]

Init == InitIn(EnvChoices)

\* the same, in a process without environment variables
InitNoEnv == Init /\ environ = EmptyEnv

(***************************************************************************)
(* The configuration store's operations, called by the application         *)
(***************************************************************************)
SetSections == {"global", "svc", ""}
SetKeys == {"log_dir", ""}
SetValues == {"/set"}
ReadSections == {"global", "svc", "other", ""}
StringKeys == {"log_dir", "num", "orphan", "nokey", ""}
IntSections == {"global", "svc"}
IntKeys == {"num", "neg", "junk", "word", "big", "empty", "log_level"}
BoolSections == {"svc", "other"}
BoolKeys == {"yes", "maybe", "console_output", "empty", "nokey"}

CfgLoadFromFile(names) ==
    \E configFile \in names :
        LET r == LoadFromFile(m_configData, g_sectionCount, FileSystem, configFile)
        IN /\ m_configData' = r.data
           /\ g_sectionCount' = r.count
           /\ UNCHANGED g_configMutex
           /\ ret' = [op |-> "LoadFromFile", configFile |-> configFile,
                      result |-> r.result, at |-> r.at,
                      preCount |-> g_sectionCount]
           /\ UNCHANGED <<environ, threadVars, loggerVars>>

CfgLoadFromEnv ==
    LET r == LoadFromEnv(m_configData, g_sectionCount, environ)
    IN /\ m_configData' = r.data
       /\ g_sectionCount' = r.count
       /\ UNCHANGED g_configMutex
       /\ ret' = [op |-> "LoadFromEnv", result |-> r.result]
       /\ UNCHANGED <<environ, threadVars, loggerVars>>

CfgSet(sections, keys, values) ==
    \E section \in sections, key \in keys, value \in values :
        LET r == Set(m_configData, g_sectionCount, section, key, value)
        IN /\ m_configData' = r.data
           /\ g_sectionCount' = r.count
           /\ UNCHANGED g_configMutex
           /\ ret' = [op |-> "Set", section |-> section, key |-> key,
                      value |-> value, result |-> r.result]
           /\ UNCHANGED <<environ, threadVars, loggerVars>>

CfgGetString(sections, keys) ==
    \E section \in sections, key \in keys, defaultValue \in {"dflt"} :
        /\ ret' = [op |-> "GetString", section |-> section, key |-> key,
                   defaultValue |-> defaultValue,
                   value |-> GetString(m_configData, section, key, defaultValue)]
        /\ UNCHANGED <<configVars, environ, threadVars, loggerVars>>

CfgGetInt32 ==
    \E section \in IntSections, key \in IntKeys, defaultValue \in {-1} :
        /\ ret' = [op |-> "GetInt32", section |-> section, key |-> key,
                   defaultValue |-> defaultValue,
                   value |-> GetInt32(m_configData, section, key, defaultValue)]
        /\ UNCHANGED <<configVars, environ, threadVars, loggerVars>>

CfgGetBool ==
    \E section \in BoolSections, key \in BoolKeys, defaultValue \in BOOLEAN :
        /\ ret' = [op |-> "GetBool", section |-> section, key |-> key,
                   defaultValue |-> defaultValue,
                   value |-> GetBool(m_configData, section, key, defaultValue)]
        /\ UNCHANGED <<configVars, environ, threadVars, loggerVars>>

\* the store loaded from short files, written with Set, and read
NextConfig ==
    \/ CfgLoadFromFile(SmallFileNames)
    \/ CfgLoadFromEnv
    \/ CfgSet(SetSections, SetKeys, SetValues)
    \/ CfgGetString(ReadSections, StringKeys)
    \/ CfgGetInt32
    \/ CfgGetBool

SpecConfig == Init /\ [][NextConfig]_vars

\* the store filled from every file, the many-section ones included
NextSections ==
    \/ CfgLoadFromFile(FileNames)
    \/ CfgLoadFromEnv
    \/ CfgSet(SetSections, SetKeys, SetValues)

SpecSections == Init /\ [][NextSections]_vars

\* the store loaded from files and then from the environment, and read
EnvFileNames == {"app.conf", "full.conf", "missing.conf"}
EnvReadSections == {"global", "app"}
EnvReadKeys == {"log_level", "log_dir", "format", "file_path", "max_size",
                "console_output", "file_output"}

NextEnv ==
    \/ CfgLoadFromFile(EnvFileNames)
    \/ CfgLoadFromEnv
    \/ CfgGetString(EnvReadSections, EnvReadKeys)

InitEnv == InitIn(EnvOverrides)

\* Set with keys and values at and beyond the limits, on sections the store
\* holds and does not hold, below and at the section cap
BoundSections == {"s1", "new", ""}
BoundKeys == {"", Rep("k", k_maxKeyLength), Rep("k", k_maxKeyLength + 1)}
BoundValues == {Rep("v", k_maxValueLength), Rep("v", k_maxValueLength + 1)}

NextSet ==
    \/ CfgLoadFromFile({"many.conf", "missing.conf"})
    \/ CfgSet(BoundSections, BoundKeys, BoundValues)
    \/ CfgGetString(BoundSections, BoundKeys)

SpecSet == InitNoEnv /\ [][NextSet]_vars

\* the names and enumerators the application asks a pattern for, and what
\* its string holds before
PatternNames ==
    {"json", "console", "simple", "minimal", "colored", "detailed", "default",
     "unknown-name", "JSON", "json ", "", "%v"}
PatternTypes == 0..8
PriorPatterns == {"", "%v"}

AppGetPattern ==
    /\ \E formatName \in PatternNames, pattern \in PriorPatterns :
          LET r == GetPattern(formatName, pattern)
          IN ret' = [op |-> "GetPattern", formatName |-> formatName,
                     prior |-> pattern, result |-> r.result,
                     pattern |-> r.pattern]
    /\ UNCHANGED <<configVars, environ, threadVars, loggerVars>>

AppGetPatternByType ==
    /\ \E formatType \in PatternTypes, pattern \in PriorPatterns :
          LET r == GetPatternByType(formatType, pattern)
          IN ret' = [op |-> "GetPatternByType", formatType |-> formatType,
                     prior |-> pattern, result |-> r.result,
                     pattern |-> r.pattern]
    /\ UNCHANGED <<configVars, environ, threadVars, loggerVars>>

\* the strings the application hands to the formatters: every character
\* that needs escaping, some that do not, pairs of the troublesome ones, and
\* the empty string
FieldUser == Codes("user")
Timestamp2026 == Codes("2026-11-02T07:00:00.000Z")
SpecialCodes == {34, 92, 10, 13, 9, 8, 12, 0, 1, 31, 32, 47, 97, 127, 233}
Messages ==
    {<<>>} \cup {<<c>> : c \in SpecialCodes}
        \cup {<<a, b>> : a \in {34, 92}, b \in {34, 92, 110}}
PlainMessages == {<<>>, <<97>>, <<10>>}
Levels == {<<>>, LevelNames["error"], <<34>>}
Components == {<<>>, <<92, 34>>}
FieldMaps ==
    { <<>>,
      << <<FieldUser, <<34, 92>> >> >>,
      << << <<1>>, <<10>> >>, << <<34>>, <<118>> >> >> }
Timestamps == {Timestamp2026}

AppToJson ==
    /\ \E message \in Messages, level \in Levels, component \in Components,
          additionalFields \in FieldMaps, timestamp \in Timestamps :
          LET r == ToJson(message, level, component, additionalFields,
                          timestamp, <<>>)
          IN ret' = [op |-> "ToJson", message |-> message, level |-> level,
                     component |-> component, fields |-> additionalFields,
                     timestamp |-> timestamp, result |-> r.result,
                     text |-> r.text]
    /\ UNCHANGED <<configVars, environ, threadVars, loggerVars>>

AppToSyslog ==
    /\ \E message \in PlainMessages, level \in Levels, component \in Components,
          timestamp \in Timestamps :
          LET r == ToSyslog(message, level, component, timestamp, <<>>)
          IN ret' = [op |-> "ToSyslog", message |-> message, level |-> level,
                     component |-> component, timestamp |-> timestamp,
                     result |-> r.result, text |-> r.text]
    /\ UNCHANGED <<configVars, environ, threadVars, loggerVars>>

AppToConsole ==
    /\ \E message \in PlainMessages, level \in Levels, component \in Components,
          timestamp \in Timestamps :
          LET r == ToConsole(message, level, component, timestamp, <<>>)
          IN ret' = [op |-> "ToConsole", message |-> message, level |-> level,
                     component |-> component, timestamp |-> timestamp,
                     result |-> r.result, text |-> r.text]
    /\ UNCHANGED <<configVars, environ, threadVars, loggerVars>>

\* the formatters, called by the application
NextFormat ==
    \/ AppGetPattern
    \/ AppGetPatternByType
    \/ AppToJson
    \/ AppToSyslog
    \/ AppToConsole

SpecFormat == InitNoEnv /\ [][NextFormat]_vars

\* keys and values longer than the store keeps, from a file and from the
\* environment
LongFileNames == {"long.conf", "app.conf"}
LongReadKeys == {"path", "file_path", "log_level"}

NextTruncate ==
    \/ CfgLoadFromFile(LongFileNames)
    \/ CfgLoadFromEnv
    \/ CfgGetString({"global", "app"}, LongReadKeys)

SpecTruncate == InitEnv /\ [][NextTruncate]_vars

SpecEnv == InitEnv /\ [][NextEnv]_vars

\* a section filled to its last entry, then written from the environment
\* and with Set, to keys it holds and to keys it does not
EntryKeys == {"k1", "extra"}
EntryValues == {"/set", "v"}

NextEntries ==
    \/ CfgLoadFromFile({"full.conf"})
    \/ CfgLoadFromEnv
    \/ CfgSet({"global"}, EntryKeys, EntryValues)

SpecEntries == InitEnv /\ [][NextEntries]_vars


(***************************************************************************)
(* The sink factories, called by the application                           *)
(***************************************************************************)
SinkFileNames == {"", "/tmp/vsn/x.log"}

AppCreateConsoleSink ==
    \E colored \in BOOLEAN :
        LET r == CreateConsoleSink(g_sinkAllocationCount, colored)
        IN /\ g_sinkAllocationCount' = r.count
           /\ UNCHANGED g_sinkMutex
           /\ ret' = [op |-> "CreateConsoleSink", handle |-> r.sink,
                      preCount |-> g_sinkAllocationCount]
           /\ UNCHANGED <<configVars, environ, threadVars, ms_defaultInstance,
                          ms_allocationCount, registry, emergencyLogger>>

AppCreateFileSink ==
    \E filename \in SinkFileNames, rotate \in BOOLEAN, ioOk \in BOOLEAN :
        LET r == CreateFileSink(g_sinkAllocationCount, filename, rotate, ioOk)
        IN /\ g_sinkAllocationCount' = r.count
           /\ UNCHANGED g_sinkMutex
           /\ ret' = [op |-> "CreateFileSink", handle |-> r.sink,
                      preCount |-> g_sinkAllocationCount]
           /\ UNCHANGED <<configVars, environ, threadVars, ms_defaultInstance,
                          ms_allocationCount, registry, emergencyLogger>>

AppCreateSyslogSink ==
    LET r == CreateSyslogSink(g_sinkAllocationCount)
    IN /\ g_sinkAllocationCount' = r.count
       /\ UNCHANGED g_sinkMutex
       /\ ret' = [op |-> "CreateSyslogSink", handle |-> r.sink,
                  preCount |-> g_sinkAllocationCount]
       /\ UNCHANGED <<configVars, environ, threadVars, ms_defaultInstance,
                      ms_allocationCount, registry, emergencyLogger>>

AppCreateNullSink ==
    LET r == CreateNullSink(g_sinkAllocationCount)
    IN /\ g_sinkAllocationCount' = r.count
       /\ UNCHANGED g_sinkMutex
       /\ ret' = [op |-> "CreateNullSink", handle |-> r.sink,
                  preCount |-> g_sinkAllocationCount]
       /\ UNCHANGED <<configVars, environ, threadVars, ms_defaultInstance,
                      ms_allocationCount, registry, emergencyLogger>>

AppCreateMultiSink ==
    \E console \in BOOLEAN, logFile \in SinkFileNames, syslog \in BOOLEAN,
       ioOk \in BOOLEAN :
        LET r == CreateMultiSink(g_sinkAllocationCount, console, logFile,
                                 syslog, ioOk)
        IN /\ g_sinkAllocationCount' = r.count
           /\ UNCHANGED g_sinkMutex
           /\ ret' = [op |-> "CreateMultiSink", sinks |-> r.sinks,
                      preCount |-> g_sinkAllocationCount,
                      console |-> console, logFile |-> logFile,
                      syslog |-> syslog]
           /\ UNCHANGED <<configVars, environ, threadVars, ms_defaultInstance,
                          ms_allocationCount, registry, emergencyLogger>>

NextSinks ==
    \/ AppCreateConsoleSink
    \/ AppCreateFileSink
    \/ AppCreateSyslogSink
    \/ AppCreateNullSink
    \/ AppCreateMultiSink

SpecSinks == Init /\ [][NextSinks]_vars

(***************************************************************************)
(* The logger registry, called by the application from one thread          *)
(***************************************************************************)
AppInitialize(names, dirs) ==
    \E appName \in names, logDir \in dirs, ioOk \in BOOLEAN :
        LET r == Initialize([data |-> m_configData, count |-> g_sectionCount,
                             registry |-> registry,
                             defaultInstance |-> ms_defaultInstance,
                             sinkCount |-> g_sinkAllocationCount],
                            environ, appName, logDir, 2, ioOk)
        IN /\ m_configData' = r.data
           /\ g_sectionCount' = r.count
           /\ UNCHANGED g_configMutex
           /\ registry' = r.registry
           /\ ms_defaultInstance' = r.defaultInstance
           /\ g_sinkAllocationCount' = r.sinkCount
           /\ UNCHANGED g_sinkMutex
           /\ ret' = [op |-> "Initialize", appName |-> appName,
                      logDir |-> logDir, result |-> r.result,
                      reused |-> r.reused, useFile |-> r.useFile,
                      logFilePath |-> r.logFilePath]
           /\ UNCHANGED <<environ, threadVars, ms_allocationCount,
                          emergencyLogger>>

AppGetDefaultLogger ==
    LET r == GetDefaultLogger([registry |-> registry,
                               defaultInstance |-> ms_defaultInstance,
                               alloc |-> ms_allocationCount,
                               sinkCount |-> g_sinkAllocationCount,
                               emergency |-> emergencyLogger])
    IN /\ registry' = r.registry
       /\ ms_defaultInstance' = r.defaultInstance
       /\ ms_allocationCount' = r.alloc
       /\ g_sinkAllocationCount' = r.sinkCount
       /\ UNCHANGED g_sinkMutex
       /\ emergencyLogger' = r.emergency
       /\ ret' = [op |-> "GetDefaultLogger", threw |-> r.threw,
                  handle |-> r.handle, warned |-> r.warned]
       /\ UNCHANGED <<configVars, environ, threadVars>>

\* spdlog::shutdown() drops every registered logger
AppShutdown ==
    /\ registry' = NoRegistry
    /\ ms_defaultInstance' = NullPtr
    /\ ret' = [op |-> "Shutdown", result |-> E_SUCCESS]
    /\ UNCHANGED <<configVars, environ, threadVars, ms_allocationCount,
                   g_sinkAllocationCount, g_sinkMutex, emergencyLogger>>

\* the application constructs a Logger of its own
AppLoggerCtor(names) ==
    \E name \in names :
        LET r == LoggerCtor(registry, ms_allocationCount,
                            g_sinkAllocationCount, name)
        IN /\ registry' = r.registry
           /\ ms_allocationCount' = r.alloc
           /\ g_sinkAllocationCount' = r.sinkCount
           /\ UNCHANGED g_sinkMutex
           /\ ret' = [op |-> "Logger", name |-> name, threw |-> r.threw]
           /\ UNCHANGED <<configVars, environ, threadVars, ms_defaultInstance,
                          emergencyLogger>>

LongName == Rep("n", 130)
LongDir == "/" \o Rep("d", 249)

\* Initialize against the sink cap, with the console and file toggles
NextRegistry ==
    \/ AppInitialize({"", "svc"}, {"", "/var/log"})
    \/ AppShutdown
    \/ AppCreateNullSink
    \/ CfgSet({"svc"}, {"console_output", "file_output"}, {"false"})

SpecRegistry == InitNoEnv /\ [][NextRegistry]_vars

\* the default logger against the sink cap and the logger cap
NextDefault ==
    \/ AppGetDefaultLogger
    \/ AppShutdown
    \/ AppCreateNullSink
    \/ AppLoggerCtor({"worker", "emergency"})

SpecDefault == InitNoEnv /\ [][NextDefault]_vars

\* Initialize with names and directories of several lengths
NextPath ==
    \/ AppInitialize({"svc", "app", LongName}, {"/var/log", "/tmp", LongDir})
    \/ CfgSet({"global"}, {"log_dir"}, {LongDir})

SpecPath == InitNoEnv /\ [][NextPath]_vars

\* Initialize with arguments it accepts and arguments it rejects, on a
\* registry that holds loggers and on one that holds none
NextFrame ==
    \/ AppInitialize({"", "svc", LongName}, {"", "/var/log", LongDir})
    \/ AppGetDefaultLogger
    \/ CfgSet({"global"}, {"log_dir"}, {LongDir})

SpecFrame == InitNoEnv /\ [][NextFrame]_vars

\* Initialize with a level argument; the level it hands to spdlog::set_level
\* is part of what the caller observes
AppInitializeLevel(names, dirs, levels) ==
    \E appName \in names, logDir \in dirs, level \in levels, ioOk \in BOOLEAN :
        LET r == Initialize([data |-> m_configData, count |-> g_sectionCount,
                             registry |-> registry,
                             defaultInstance |-> ms_defaultInstance,
                             sinkCount |-> g_sinkAllocationCount],
                            environ, appName, logDir, level, ioOk)
        IN /\ m_configData' = r.data
           /\ g_sectionCount' = r.count
           /\ UNCHANGED g_configMutex
           /\ registry' = r.registry
           /\ ms_defaultInstance' = r.defaultInstance
           /\ g_sinkAllocationCount' = r.sinkCount
           /\ UNCHANGED g_sinkMutex
           /\ ret' = [op |-> "Initialize", appName |-> appName,
                      logDir |-> logDir, result |-> r.result,
                      reused |-> r.reused,
                      level |-> IF r.result = E_SUCCESS
                                THEN ConfiguredLevel(r.data, appName, level)
                                ELSE -1]
           /\ UNCHANGED <<environ, threadVars, ms_allocationCount,
                          emergencyLogger>>

LevelArguments == {0, 2, 6}
LevelValues == {"4", "6", "99", "-7", "loud"}

\* Initialize over a store whose log_level entries hold numbers inside and
\* outside the enumeration
NextLevel ==
    \/ AppInitializeLevel({"svc", ""}, {"/var/log"}, LevelArguments)
    \/ CfgSet({"global", "svc"}, {"log_level"}, LevelValues)

SpecLevel == InitNoEnv /\ [][NextLevel]_vars

\* the format strings the application passes: none, and texts around the
\* bound
NullFmt == [null |-> TRUE, text |-> ""]
Formats ==
    {NullFmt} \cup
    {[null |-> FALSE, text |-> t] :
        t \in {"", "value {}", Rep("m", k_maxMessageLength - 1),
               Rep("m", k_maxMessageLength), Rep("m", k_maxMessageLength + 1),
               Rep("m", k_maxMessageLength + 44)}}

\* handle->Trace(...) .. handle->Critical(...) on the default logger
AppLog ==
    /\ ms_defaultInstance # NullPtr
    /\ \E method \in DOMAIN LevelOf, fmt \in Formats, engineThrows \in BOOLEAN :
          LET r == LogWithLocation(ms_defaultInstance, LevelOf[method], fmt,
                                   engineThrows)
          IN ret' = [op |-> "LogWithLocation", method |-> method,
                     fmtNull |-> fmt.null, fmtLen |-> Len(fmt.text),
                     engineThrows |-> engineThrows, result |-> r.result,
                     dispatched |-> r.dispatched, threw |-> r.threw]
    /\ UNCHANGED <<configVars, environ, threadVars, loggerVars>>

\* logging through the default logger, however it came to be
NextLog ==
    \/ AppInitialize({"svc"}, {"/var/log"})
    \/ AppGetDefaultLogger
    \/ AppLog

SpecLog == InitNoEnv /\ [][NextLog]_vars

\* the application constructs a Logger with a log file
AppLoggerCtorFile(names, files) ==
    \E name \in names, logFilePath \in files, ioOk \in BOOLEAN :
        LET r == LoggerCtorFile(registry, ms_allocationCount,
                                g_sinkAllocationCount, name, logFilePath, ioOk)
        IN /\ registry' = r.registry
           /\ ms_allocationCount' = r.alloc
           /\ g_sinkAllocationCount' = r.sinkCount
           /\ UNCHANGED g_sinkMutex
           /\ ret' = [op |-> "Logger", name |-> name, threw |-> r.threw]
           /\ UNCHANGED <<configVars, environ, threadVars, ms_defaultInstance,
                          emergencyLogger>>

\* sink vectors of every length up to MaxSinkVec, of mixed classes
MaxSinkVec == 10
SinkVec(n) ==
    [i \in 1..n |->
        [class |-> CASE i % 3 = 1 -> "stdout_color_sink_mt"
                     [] i % 3 = 2 -> "rotating_file_sink_mt"
                     [] OTHER -> "syslog_sink_mt"]]

\* the sink count limit of Initialize and of the constructor, on a vector
\* of any length
AppSinkLimit ==
    /\ \E n \in 0..MaxSinkVec :
          ret' = [op |-> "SinkLimit", given |-> SinkVec(n),
                  kept |-> SinkLimit(SinkVec(n))]
    /\ UNCHANGED <<configVars, environ, threadVars, loggerVars>>

\* loggers of one, two and three sinks
NextSinkSets ==
    \/ AppInitialize({"svc"}, {"/var/log"})
    \/ CfgSet({"svc"}, {"syslog_output"}, {"true"})
    \/ AppLoggerCtorFile({"filelog"}, SinkFileNames)
    \/ AppSinkLimit

SpecSinkSets == InitNoEnv /\ [][NextSinkSets]_vars

\* the sink counter over the life of the process: sinks the application
\* creates and lets go, loggers built and dropped by Shutdown
NextCount ==
    \/ AppInitialize({"svc"}, {"/var/log"})
    \/ AppGetDefaultLogger
    \/ AppShutdown
    \/ AppCreateNullSink

SpecCount == InitNoEnv /\ [][NextCount]_vars

\* one application name after another, with the default logger read in
\* between
NextPromote ==
    \/ AppInitialize({"svc", "app"}, {"", "/var/log"})
    \/ AppGetDefaultLogger
    \/ AppLoggerCtor({"worker"})

SpecPromote == InitNoEnv /\ [][NextPromote]_vars

\* Initialize in an environment that sets variables, after a file was loaded
NextEnvInit ==
    \/ CfgLoadFromFile({"app.conf", "missing.conf"})
    \/ AppInitialize({"svc", "app"}, {"/var/log"})

SpecEnvInit == InitEnv /\ [][NextEnvInit]_vars

(***************************************************************************)
(* The logger registry called from several threads.  A thread moves        *)
(* through its call one step at a time: taking g_loggerMutex               *)
(* (std::lock_guard), the part of the body the lock covers, and what the   *)
(* caller does with the reference it was given.  A call that dereferences  *)
(* an empty pointer ends the process: no thread steps after that.          *)
(***************************************************************************)
Running == \A t \in Threads : pc[t] # "crashed"

\* a thread starts a call
Start(t, label, locals) ==
    /\ Running
    /\ pc[t] = "idle"
    /\ calls[t] < MaxCalls
    /\ calls' = [calls EXCEPT ![t] = @ + 1]
    /\ pc' = [pc EXCEPT ![t] = label]
    /\ local' = [local EXCEPT ![t] = locals]

\* a lock_guard on g_loggerMutex that does not wait for the owner
Lock_NoWait(t, from, to) ==
    /\ Running
    /\ pc[t] = from
    /\ g_loggerMutex' = t
    /\ pc' = [pc EXCEPT ![t] = to]

\* std::lock_guard<std::mutex> lock(g_loggerMutex) by a thread that does not
\* own the mutex
Lock(t, from, to) ==
    /\ Running
    /\ pc[t] = from
    /\ g_loggerMutex = Free
    /\ g_loggerMutex' = t
    /\ pc' = [pc EXCEPT ![t] = to]

\* VSN_INFO(...): Logger::GetDefaultLogger()->Info(...)
MacroCall(t) ==
    /\ Start(t, "gdl_lock", NoLocals)
    /\ UNCHANGED <<configVars, environ, loggerVars, g_loggerMutex, ret>>

GdlLock(t) ==
    /\ Lock(t, "gdl_lock", "gdl_body")
    /\ UNCHANGED <<configVars, environ, loggerVars, local, calls, ret>>

\* the body of GetDefaultLogger and its return, which releases the lock and
\* hands out a reference to ms_defaultInstance or to emergencyLogger
GdlBody(t) ==
    /\ Running
    /\ pc[t] = "gdl_body"
    /\ LET r == GetDefaultLogger([registry |-> registry,
                                  defaultInstance |-> ms_defaultInstance,
                                  alloc |-> ms_allocationCount,
                                  sinkCount |-> g_sinkAllocationCount,
                                  emergency |-> emergencyLogger])
       IN /\ registry' = r.registry
          /\ ms_defaultInstance' = r.defaultInstance
          /\ ms_allocationCount' = r.alloc
          /\ g_sinkAllocationCount' = r.sinkCount
          /\ UNCHANGED g_sinkMutex
          /\ emergencyLogger' = r.emergency
          /\ g_loggerMutex' = Free
          /\ IF r.threw
             THEN /\ pc' = [pc EXCEPT ![t] = "idle"]
                  /\ local' = [local EXCEPT ![t] = NoLocals]
                  /\ ret' = [op |-> "VSN_INFO", thread |-> t, threw |-> TRUE]
             ELSE /\ pc' = [pc EXCEPT ![t] = "macro_deref"]
                  /\ local' = [local EXCEPT ![t].ref =
                                  IF r.defaultInstance # NullPtr
                                  THEN "ms_defaultInstance"
                                  ELSE "emergencyLogger"]
                  /\ UNCHANGED ret
    /\ UNCHANGED <<configVars, environ, calls>>

\* operator-> on the reference, after the lock is gone
MacroDeref(t) ==
    /\ Running
    /\ pc[t] = "macro_deref"
    /\ LET target == IF local[t].ref = "ms_defaultInstance"
                     THEN ms_defaultInstance ELSE emergencyLogger
       IN IF target = NullPtr
          THEN /\ pc' = [pc EXCEPT ![t] = "crashed"]
               /\ UNCHANGED <<local, ret>>
          ELSE /\ pc' = [pc EXCEPT ![t] = "idle"]
               /\ local' = [local EXCEPT ![t] = NoLocals]
               /\ ret' = [op |-> "VSN_INFO", thread |-> t, threw |-> FALSE]
    /\ UNCHANGED <<configVars, environ, loggerVars, g_loggerMutex, calls>>

\* Logger::Shutdown takes no lock
ShutdownCall(t) ==
    /\ Start(t, "sd_spdlog", NoLocals)
    /\ UNCHANGED <<configVars, environ, loggerVars, g_loggerMutex, ret>>

\* spdlog::shutdown()
SdSpdlog(t) ==
    /\ Running
    /\ pc[t] = "sd_spdlog"
    /\ registry' = NoRegistry
    /\ pc' = [pc EXCEPT ![t] = "sd_clear"]
    /\ UNCHANGED <<configVars, environ, ms_defaultInstance, ms_allocationCount,
                   g_sinkAllocationCount, g_sinkMutex, emergencyLogger, g_loggerMutex,
                   local, calls, ret>>

\* ms_defaultInstance = nullptr
SdClear(t) ==
    /\ Running
    /\ pc[t] = "sd_clear"
    /\ ms_defaultInstance' = NullPtr
    /\ pc' = [pc EXCEPT ![t] = "idle"]
    /\ ret' = [op |-> "Shutdown", thread |-> t, result |-> E_SUCCESS]
    /\ UNCHANGED <<configVars, environ, ms_allocationCount,
                   g_sinkAllocationCount, g_sinkMutex, registry, emergencyLogger,
                   g_loggerMutex, local, calls>>

ThreadAppNames == {"svc"}
ThreadLogDir == "/var/log"

InitializeCall(t) ==
    /\ \E appName \in ThreadAppNames :
          Start(t, "init_lock", [NoLocals EXCEPT !.appName = appName])
    /\ UNCHANGED <<configVars, environ, loggerVars, g_loggerMutex, ret>>

InitLock(t) ==
    /\ Lock(t, "init_lock", "init_body")
    /\ UNCHANGED <<configVars, environ, loggerVars, local, calls, ret>>

\* the body of Initialize and its return, which releases the lock
InitBody(t) ==
    /\ Running
    /\ pc[t] = "init_body"
    /\ LET r == Initialize([data |-> m_configData, count |-> g_sectionCount,
                            registry |-> registry,
                            defaultInstance |-> ms_defaultInstance,
                            sinkCount |-> g_sinkAllocationCount],
                           environ, local[t].appName, ThreadLogDir, 2, TRUE)
       IN /\ m_configData' = r.data
          /\ g_sectionCount' = r.count
          /\ UNCHANGED g_configMutex
          /\ registry' = r.registry
          /\ ms_defaultInstance' = r.defaultInstance
          /\ g_sinkAllocationCount' = r.sinkCount
          /\ UNCHANGED g_sinkMutex
          /\ ret' = [op |-> "Initialize", thread |-> t, result |-> r.result]
    /\ g_loggerMutex' = Free
    /\ pc' = [pc EXCEPT ![t] = "idle"]
    /\ local' = [local EXCEPT ![t] = NoLocals]
    /\ UNCHANGED <<environ, ms_allocationCount, emergencyLogger, calls>>

IwcAppNames == {"svc", ""}
IwcConfigFiles == {"app.conf", "missing.conf"}

InitializeWithConfigCall(t) ==
    /\ \E appName \in IwcAppNames, configFile \in IwcConfigFiles :
          Start(t, "iwc_lock", [NoLocals EXCEPT !.appName = appName,
                                                !.configFile = configFile])
    /\ UNCHANGED <<configVars, environ, loggerVars, g_loggerMutex, ret>>

IwcLock(t) ==
    /\ Lock(t, "iwc_lock", "iwc_body")
    /\ UNCHANGED <<configVars, environ, loggerVars, local, calls, ret>>

\* the configuration as InitializeWithConfig leaves it: the file, then the
\* environment over it
IwcLoaded(data, count, env, configFile) ==
    LoadFromEnv(LoadFromFile(data, count, FileSystem, configFile).data,
                LoadFromFile(data, count, FileSystem, configFile).count, env)

\* the body of InitializeWithConfig down to its call of Initialize
IwcBody(t) ==
    /\ Running
    /\ pc[t] = "iwc_body"
    /\ IF local[t].appName = ""
       THEN /\ g_loggerMutex' = Free
            /\ pc' = [pc EXCEPT ![t] = "idle"]
            /\ local' = [local EXCEPT ![t] = NoLocals]
            /\ ret' = [op |-> "InitializeWithConfig", thread |-> t,
                       appName |-> local[t].appName,
                       result |-> E_INVALID_PARAMETER, delegated |-> FALSE]
            /\ UNCHANGED configVars
       ELSE /\ LET e == IwcLoaded(m_configData, g_sectionCount, environ,
                                  local[t].configFile)
               IN /\ m_configData' = e.data
                  /\ g_sectionCount' = e.count
                  /\ UNCHANGED g_configMutex
            /\ pc' = [pc EXCEPT ![t] = "iwc_relock"]
            /\ UNCHANGED <<g_loggerMutex, local, ret>>
    /\ UNCHANGED <<environ, loggerVars, calls>>

\* Initialize's std::lock_guard on the mutex this thread already owns.  The
\* standard leaves the behaviour undefined; a build gives one of three
\* outcomes.  First: the thread waits for itself, for ever.
IwcRelockBlocks(t) ==
    /\ Running
    /\ pc[t] = "iwc_relock"
    /\ g_loggerMutex = t
    /\ pc' = [pc EXCEPT ![t] = "iwc_blocked"]
    /\ UNCHANGED <<configVars, environ, loggerVars, g_loggerMutex, local,
                   calls, ret>>

\* Second: lock() throws std::system_error, which Initialize does not see
\* (its try block is not entered yet) and InitializeWithConfig catches
IwcRelockThrows(t) ==
    /\ Running
    /\ pc[t] = "iwc_relock"
    /\ g_loggerMutex = t
    /\ g_loggerMutex' = Free
    /\ pc' = [pc EXCEPT ![t] = "idle"]
    /\ local' = [local EXCEPT ![t] = NoLocals]
    /\ ret' = [op |-> "InitializeWithConfig", thread |-> t,
               appName |-> local[t].appName,
               result |-> E_UNKNOWN_ERROR, delegated |-> FALSE]
    /\ UNCHANGED <<configVars, environ, loggerVars, calls>>

\* Third: the mutex does not notice, Initialize runs, and both guards unlock
IwcRelockProceeds(t) ==
    /\ Running
    /\ pc[t] = "iwc_relock"
    /\ g_loggerMutex = t
    /\ LET logDir == GetString(m_configData, "global", "log_dir", "/var/log")
           level == GetInt32(m_configData, "global", "log_level", 1)
           r == Initialize([data |-> m_configData, count |-> g_sectionCount,
                            registry |-> registry,
                            defaultInstance |-> ms_defaultInstance,
                            sinkCount |-> g_sinkAllocationCount],
                           environ, local[t].appName, logDir, level, TRUE)
       IN /\ m_configData' = r.data
          /\ g_sectionCount' = r.count
          /\ UNCHANGED g_configMutex
          /\ registry' = r.registry
          /\ ms_defaultInstance' = r.defaultInstance
          /\ g_sinkAllocationCount' = r.sinkCount
          /\ UNCHANGED g_sinkMutex
          /\ ret' = [op |-> "InitializeWithConfig", thread |-> t,
                     appName |-> local[t].appName,
                     result |-> r.result, delegated |-> TRUE]
    /\ g_loggerMutex' = Free
    /\ pc' = [pc EXCEPT ![t] = "idle"]
    /\ local' = [local EXCEPT ![t] = NoLocals]
    /\ UNCHANGED <<environ, ms_allocationCount, emergencyLogger, calls>>

NextThreads ==
    \E t \in Threads :
        \/ MacroCall(t)
        \/ GdlLock(t)
        \/ GdlBody(t)
        \/ MacroDeref(t)
        \/ ShutdownCall(t)
        \/ SdSpdlog(t)
        \/ SdClear(t)
        \/ InitializeCall(t)
        \/ InitLock(t)
        \/ InitBody(t)
        \/ InitializeWithConfigCall(t)
        \/ IwcLock(t)
        \/ IwcBody(t)
        \/ IwcRelockBlocks(t)
        \/ IwcRelockThrows(t)
        \/ IwcRelockProceeds(t)

SpecThreads == InitNoEnv /\ [][NextThreads]_vars

(***************************************************************************)
(* The configuration store called from several threads.  Every operation  *)
(* of the store takes g_configMutex (std::lock_guard) before it touches    *)
(* the table and lets it go when it returns; LoadFromFile opens its file   *)
(* first.  Initialize is followed step by step through its calls into the  *)
(* store, which it makes with g_loggerMutex taken.                         *)
(***************************************************************************)
\* a lock_guard that does not wait for the owner
LockStore_NoWait(t, from, to) ==
    /\ Running
    /\ pc[t] = from
    /\ g_configMutex' = t
    /\ pc' = [pc EXCEPT ![t] = to]

\* std::lock_guard<std::mutex> lock(g_configMutex) by a thread that does not
\* own the mutex
LockStore(t, from, to) ==
    /\ Running
    /\ pc[t] = from
    /\ g_configMutex = Free
    /\ g_configMutex' = t
    /\ pc' = [pc EXCEPT ![t] = to]

StoreFiles == {"app.conf", "missing.conf", ""}
StoreReads == {"GetString", "GetInt32", "GetBool"}

\* the calls into the store that the threads make
StoreCalls ==
    {[NoLocals EXCEPT !.op = "LoadFromFile", !.configFile = f] :
        f \in StoreFiles}
    \cup {[NoLocals EXCEPT !.op = "LoadFromEnv"]}
    \cup {[NoLocals EXCEPT !.op = op, !.section = "svc", !.key = "log_level"] :
            op \in StoreReads}
    \cup {[NoLocals EXCEPT !.op = "Set", !.section = "svc",
                           !.key = "log_level", !.value = "3"]}

StoreCall(t) ==
    /\ \E c \in StoreCalls :
          Start(t, IF c.op = "LoadFromFile" THEN "store_open" ELSE "store_lock",
                c)
    /\ UNCHANGED <<configVars, environ, loggerVars, g_loggerMutex, ret>>

\* LoadFromFile before its lock_guard: the name is checked and the file
\* opened
StoreOpen(t) ==
    /\ Running
    /\ pc[t] = "store_open"
    /\ IF local[t].configFile = "" \/ local[t].configFile \notin DOMAIN FileSystem
       THEN /\ pc' = [pc EXCEPT ![t] = "idle"]
            /\ local' = [local EXCEPT ![t] = NoLocals]
            /\ ret' = [op |-> "LoadFromFile", thread |-> t,
                       result |-> LoadFromFile(m_configData, g_sectionCount,
                                               FileSystem,
                                               local[t].configFile).result]
       ELSE /\ pc' = [pc EXCEPT ![t] = "store_lock"]
            /\ UNCHANGED <<local, ret>>
    /\ UNCHANGED <<configVars, environ, loggerVars, g_loggerMutex, calls>>

StoreLock(t) ==
    /\ LockStore(t, "store_lock", "store_body")
    /\ UNCHANGED <<m_configData, g_sectionCount, environ, loggerVars,
                   g_loggerMutex, local, calls, ret>>

\* what the operation c does to the table and what it returns
StoreEffect(c, data, count, env) ==
    CASE c.op = "LoadFromFile" ->
            LET r == LoadFromFile(data, count, FileSystem, c.configFile)
            IN [data |-> r.data, count |-> r.count, value |-> r.result]
      [] c.op = "LoadFromEnv" ->
            LET r == LoadFromEnv(data, count, env)
            IN [data |-> r.data, count |-> r.count, value |-> r.result]
      [] c.op = "Set" ->
            LET r == Set(data, count, c.section, c.key, c.value)
            IN [data |-> r.data, count |-> r.count, value |-> r.result]
      [] c.op = "GetString" ->
            [data |-> data, count |-> count,
             value |-> GetString(data, c.section, c.key, "dflt")]
      [] c.op = "GetInt32" ->
            [data |-> data, count |-> count,
             value |-> GetInt32(data, c.section, c.key, -1)]
      [] c.op = "GetBool" ->
            [data |-> data, count |-> count,
             value |-> GetBool(data, c.section, c.key, FALSE)]

\* an operation that returns with the mutex still taken
StoreBody_KeepsLock(t) ==
    /\ Running
    /\ pc[t] = "store_body"
    /\ ret' = [op |-> local[t].op, thread |-> t, value |-> "kept"]
    /\ pc' = [pc EXCEPT ![t] = "idle"]
    /\ local' = [local EXCEPT ![t] = NoLocals]
    /\ UNCHANGED <<configVars, environ, loggerVars, g_loggerMutex, calls>>

\* the part of the operation under the lock_guard, and its return, which
\* releases the mutex
StoreBody(t) ==
    /\ Running
    /\ pc[t] = "store_body"
    /\ LET r == StoreEffect(local[t], m_configData, g_sectionCount, environ)
       IN /\ m_configData' = r.data
          /\ g_sectionCount' = r.count
          /\ ret' = [op |-> local[t].op, thread |-> t, value |-> r.value]
    /\ g_configMutex' = Free
    /\ pc' = [pc EXCEPT ![t] = "idle"]
    /\ local' = [local EXCEPT ![t] = NoLocals]
    /\ UNCHANGED <<environ, loggerVars, g_loggerMutex, calls>>

LockAppNames == {"svc", ""}

InitializeStart(t) ==
    /\ \E appName \in LockAppNames :
          Start(t, "init_guard",
                [NoLocals EXCEPT !.op = "Initialize", !.appName = appName])
    /\ UNCHANGED <<configVars, environ, loggerVars, g_loggerMutex, ret>>

\* std::lock_guard<std::mutex> lock(g_loggerMutex) at the top of Initialize
InitGuard(t) ==
    /\ Lock(t, "init_guard", "init_validate")
    /\ UNCHANGED <<configVars, environ, loggerVars, local, calls, ret>>

\* the input validation
InitValidate(t) ==
    /\ Running
    /\ pc[t] = "init_validate"
    /\ IF EmptyArgument(local[t].appName, ThreadLogDir)
       THEN /\ g_loggerMutex' = Free
            /\ pc' = [pc EXCEPT ![t] = "idle"]
            /\ local' = [local EXCEPT ![t] = NoLocals]
            /\ ret' = [op |-> "Initialize", thread |-> t,
                       result |-> E_INVALID_PARAMETER]
       ELSE /\ pc' = [pc EXCEPT ![t] = "init_env_lock"]
            /\ UNCHANGED <<g_loggerMutex, local, ret>>
    /\ UNCHANGED <<configVars, environ, loggerVars, calls>>

\* config.LoadFromEnv(): its lock_guard
InitEnvLock(t) ==
    /\ LockStore(t, "init_env_lock", "init_env")
    /\ UNCHANGED <<m_configData, g_sectionCount, environ, loggerVars,
                   g_loggerMutex, local, calls, ret>>

\* config.LoadFromEnv(): its body and return
InitEnvLoad(t) ==
    /\ Running
    /\ pc[t] = "init_env"
    /\ LET e == LoadFromEnv(m_configData, g_sectionCount, environ)
       IN /\ m_configData' = e.data
          /\ g_sectionCount' = e.count
    /\ g_configMutex' = Free
    /\ pc' = [pc EXCEPT ![t] = "init_options"]
    /\ UNCHANGED <<environ, loggerVars, g_loggerMutex, local, calls, ret>>

\* the options are read from the store, each read taking and releasing
\* g_configMutex
InitOptions(t) ==
    /\ Running
    /\ pc[t] = "init_options"
    /\ g_configMutex = Free
    /\ local' = [local EXCEPT ![t].opt =
                    ReadOptions(m_configData, local[t].appName, ThreadLogDir)]
    /\ pc' = [pc EXCEPT ![t] = "init_build"]
    /\ UNCHANGED <<configVars, environ, loggerVars, g_loggerMutex, calls, ret>>

\* what Initialize makes of the options it read
InitOutcome(t) ==
    InitializeWith([data |-> m_configData, count |-> g_sectionCount,
                    registry |-> registry,
                    defaultInstance |-> ms_defaultInstance,
                    sinkCount |-> g_sinkAllocationCount],
                   [data |-> m_configData, count |-> g_sectionCount],
                   local[t].opt, local[t].appName, ThreadLogDir, TRUE)

\* Initialize returns: the lock_guard releases g_loggerMutex
InitReturn(t, r) ==
    /\ registry' = r.registry
    /\ ms_defaultInstance' = r.defaultInstance
    /\ g_sinkAllocationCount' = r.sinkCount
    /\ ret' = [op |-> "Initialize", thread |-> t, result |-> r.result,
               reused |-> r.reused]
    /\ g_loggerMutex' = Free
    /\ pc' = [pc EXCEPT ![t] = "idle"]
    /\ local' = [local EXCEPT ![t] = NoLocals]
    /\ UNCHANGED <<configVars, environ, ms_allocationCount, emergencyLogger,
                   calls>>

\* the path check and spdlog::get: a path too long or a logger found ends
\* the call, a new logger needs its sinks
InitBuild(t) ==
    /\ Running
    /\ pc[t] = "init_build"
    /\ IF InitOutcome(t).result = E_SUCCESS /\ ~InitOutcome(t).reused
       THEN /\ pc' = [pc EXCEPT ![t] = "init_sink_lock"]
            /\ UNCHANGED <<configVars, environ, loggerVars, g_loggerMutex,
                           local, calls, ret>>
       ELSE /\ InitReturn(t, InitOutcome(t))
            /\ UNCHANGED g_sinkMutex

\* the lock_guard on g_sinkMutex of a sink factory
LockSink(t, from, to) ==
    /\ Running
    /\ pc[t] = from
    /\ g_sinkMutex = Free
    /\ g_sinkMutex' = t
    /\ pc' = [pc EXCEPT ![t] = to]

\* the sink factories Initialize calls take g_sinkMutex, one after the
\* other; they are followed as one stretch under the mutex
InitSinkLock(t) ==
    /\ LockSink(t, "init_sink_lock", "init_sinks")
    /\ UNCHANGED <<configVars, environ, ms_defaultInstance, ms_allocationCount,
                   g_sinkAllocationCount, registry, emergencyLogger,
                   g_loggerMutex, local, calls, ret>>

\* the sinks are created, the logger is built, registered and made the
\* default, and Initialize returns
InitSinks(t) ==
    /\ Running
    /\ pc[t] = "init_sinks"
    /\ InitReturn(t, InitOutcome(t))
    /\ g_sinkMutex' = Free

NextLocks ==
    \E t \in Threads :
        \/ StoreCall(t)
        \/ StoreOpen(t)
        \/ StoreLock(t)
        \/ StoreBody(t)
        \/ InitializeStart(t)
        \/ InitGuard(t)
        \/ InitValidate(t)
        \/ InitEnvLock(t)
        \/ InitEnvLoad(t)
        \/ InitOptions(t)
        \/ InitBuild(t)
        \/ InitSinkLock(t)
        \/ InitSinks(t)

SpecLocks == InitNoEnv /\ [][NextLocks]_vars

(***************************************************************************)
(* Every lock of the library: threads call Initialize, GetDefaultLogger,   *)
(* the store and a sink factory.  GetDefaultLogger is followed through the *)
(* sink factory its Logger("default") calls.                               *)
(***************************************************************************)
OrderStoreCalls ==
    {[NoLocals EXCEPT !.op = "Set", !.section = "svc",
                      !.key = "console_output", !.value = "false"],
     [NoLocals EXCEPT !.op = "LoadFromEnv"]}

OrderStoreCall(t) ==
    /\ \E c \in OrderStoreCalls : Start(t, "store_lock", c)
    /\ UNCHANGED <<configVars, environ, loggerVars, g_loggerMutex, ret>>

\* sinks::CreateConsoleSink(true), called by the application
SinkCall(t) ==
    /\ Start(t, "sink_lock", [NoLocals EXCEPT !.op = "CreateConsoleSink"])
    /\ UNCHANGED <<configVars, environ, loggerVars, g_loggerMutex, ret>>

SinkLock(t) ==
    /\ LockSink(t, "sink_lock", "sink_body")
    /\ UNCHANGED <<configVars, environ, ms_defaultInstance, ms_allocationCount,
                   g_sinkAllocationCount, registry, emergencyLogger,
                   g_loggerMutex, local, calls, ret>>

\* the factory under its lock_guard, and its return
SinkBody(t) ==
    /\ Running
    /\ pc[t] = "sink_body"
    /\ LET r == CreateConsoleSink(g_sinkAllocationCount, TRUE)
       IN /\ g_sinkAllocationCount' = r.count
          /\ ret' = [op |-> "CreateConsoleSink", thread |-> t,
                     handle |-> r.sink]
    /\ g_sinkMutex' = Free
    /\ pc' = [pc EXCEPT ![t] = "idle"]
    /\ local' = [local EXCEPT ![t] = NoLocals]
    /\ UNCHANGED <<configVars, environ, ms_defaultInstance, ms_allocationCount,
                   registry, emergencyLogger, g_loggerMutex, calls>>

DefaultCall(t) ==
    /\ Start(t, "default_guard", [NoLocals EXCEPT !.op = "GetDefaultLogger"])
    /\ UNCHANGED <<configVars, environ, loggerVars, g_loggerMutex, ret>>

\* std::lock_guard<std::mutex> lock(g_loggerMutex) at the top of
\* GetDefaultLogger
DefaultGuard(t) ==
    /\ Lock(t, "default_guard", "default_check")
    /\ UNCHANGED <<configVars, environ, loggerVars, local, calls, ret>>

\* what GetDefaultLogger does to the registry's state
DefaultOutcome ==
    GetDefaultLogger([registry |-> registry,
                      defaultInstance |-> ms_defaultInstance,
                      alloc |-> ms_allocationCount,
                      sinkCount |-> g_sinkAllocationCount,
                      emergency |-> emergencyLogger])

\* GetDefaultLogger returns: the lock_guard releases g_loggerMutex
DefaultReturn(t, r) ==
    /\ registry' = r.registry
    /\ ms_defaultInstance' = r.defaultInstance
    /\ ms_allocationCount' = r.alloc
    /\ g_sinkAllocationCount' = r.sinkCount
    /\ emergencyLogger' = r.emergency
    /\ ret' = [op |-> "GetDefaultLogger", thread |-> t, threw |-> r.threw]
    /\ g_loggerMutex' = Free
    /\ pc' = [pc EXCEPT ![t] = "idle"]
    /\ local' = [local EXCEPT ![t] = NoLocals]
    /\ UNCHANGED <<configVars, environ, calls>>

\* if (!ms_defaultInstance): with a default logger the call returns; without
\* one Logger("default") passes its cap check and spdlog::get and goes on to
\* the console sink factory
DefaultCheck(t) ==
    /\ Running
    /\ pc[t] = "default_check"
    /\ IF /\ ms_defaultInstance = NullPtr
          /\ ~LoggerAllocCapReached(ms_allocationCount)
          /\ SpdlogGet(registry, "default") = NullPtr
       THEN /\ pc' = [pc EXCEPT ![t] = "default_sink_lock"]
            /\ UNCHANGED <<configVars, environ, loggerVars, g_loggerMutex,
                           local, calls, ret>>
       ELSE /\ DefaultReturn(t, DefaultOutcome)
            /\ UNCHANGED g_sinkMutex

DefaultSinkLock(t) ==
    /\ LockSink(t, "default_sink_lock", "default_build")
    /\ UNCHANGED <<configVars, environ, ms_defaultInstance, ms_allocationCount,
                   g_sinkAllocationCount, registry, emergencyLogger,
                   g_loggerMutex, local, calls, ret>>

\* the sink is created, the logger registered and made the default, and
\* GetDefaultLogger returns
DefaultBuild(t) ==
    /\ Running
    /\ pc[t] = "default_build"
    /\ DefaultReturn(t, DefaultOutcome)
    /\ g_sinkMutex' = Free

\* one step of thread t
OrderStep(t) ==
    \/ OrderStoreCall(t)
    \/ StoreLock(t)
    \/ StoreBody(t)
    \/ SinkCall(t)
    \/ SinkLock(t)
    \/ SinkBody(t)
    \/ DefaultCall(t)
    \/ DefaultGuard(t)
    \/ DefaultCheck(t)
    \/ DefaultSinkLock(t)
    \/ DefaultBuild(t)
    \/ InitializeStart(t)
    \/ InitGuard(t)
    \/ InitValidate(t)
    \/ InitEnvLock(t)
    \/ InitEnvLoad(t)
    \/ InitOptions(t)
    \/ InitBuild(t)
    \/ InitSinkLock(t)
    \/ InitSinks(t)

NextOrder == \E t \in Threads : OrderStep(t)

\* a thread that can take a step is not kept from it for ever: the
\* scheduler runs every runnable thread
SpecOrder ==
    /\ InitNoEnv
    /\ [][NextOrder]_vars
    /\ \A t \in Threads : WF_vars(OrderStep(t))

(***************************************************************************)
(* Properties of the configuration store                                   *)
(***************************************************************************)
\* the lines of a file that the loader takes for section headers
HeaderLines(lines) ==
    {i \in 1..Len(lines) :
        /\ lines[i] # ""
        /\ CharAt(lines[i], 1) \notin {"#", ";"}
        /\ SectionMatch(Trim(lines[i]))}

HeaderName(lines, i) == SectionCapture(Trim(lines[i]))

\* the first header line of each distinct section name
FirstHeaders(lines) ==
    {i \in HeaderLines(lines) :
        \A j \in HeaderLines(lines) :
            j < i => HeaderName(lines, j) # HeaderName(lines, i)}

\* the line of the n-th distinct section header, 0 when there are fewer
NthHeader(lines, n) ==
    LET at == {i \in FirstHeaders(lines) :
                  Cardinality({j \in FirstHeaders(lines) : j < i}) = n - 1}
    IN IF at = {} THEN 0 ELSE CHOOSE i \in at : TRUE

LoadedManyHeaders ==
    /\ ret.op = "LoadFromFile"
    /\ ret.configFile \in DOMAIN FileSystem
    /\ Cardinality(FirstHeaders(FileSystem[ret.configFile])) > k_maxSections

HasKey(data, section, key) == section \in DOMAIN data /\ key \in DOMAIN data[section]

ThreeLevel(data, section, key, defaultValue) ==
    IF HasKey(data, section, key) THEN data[section][key]
    ELSE IF HasKey(data, "global", key) THEN data["global"][key]
    ELSE defaultValue

\* C9 as stated: for every section and key, GetString returns the section's
\* own value if present, else the "global" value if present, else the default.
C9_ThreeLevelLookup ==
    ret.op = "GetString" =>
        ret.value = ThreeLevel(m_configData, ret.section, ret.key, ret.defaultValue)

\* C9 amended: for every non-empty section name and non-empty key, GetString
\* returns the section's own value if present, else the "global" value if
\* present, else the default; with an empty section name or an empty key it
\* returns the default.
C9_ThreeLevelLookupNonEmpty ==
    ret.op = "GetString" =>
        ret.value =
            IF ret.section = "" \/ ret.key = "" THEN ret.defaultValue
            ELSE ThreeLevel(m_configData, ret.section, ret.key, ret.defaultValue)

\* C9 witness: a key absent from its section and present in "global" was read
C9_Witness ==
    /\ ret.op = "GetString"
    /\ ret.section \notin {"", "global"}
    /\ ~HasKey(m_configData, ret.section, ret.key)
    /\ HasKey(m_configData, "global", ret.key)
    /\ ret.value = m_configData["global"][ret.key]
    /\ ret.value # ret.defaultValue

\* the texts that spell a boolean
BoolTexts == {"true", "yes", "1", "on", "false", "no", "0", "off"}

StoredValue == GetString(m_configData, ret.section, ret.key, "")

\* C10 as stated: when the stored value cannot be parsed as an integer
\* (GetInt32) or as a boolean (GetBool), the caller's default is returned.
C10_ParseFailureGivesDefault ==
    /\ (ret.op = "GetInt32" /\ ~StoI(StoredValue).ok)
          => ret.value = ret.defaultValue
    /\ (ret.op = "GetBool" /\ ToLower(StoredValue) \notin BoolTexts)
          => ret.value = ret.defaultValue

\* C10, the case the code gets right: GetInt32 on a value std::stoi rejects
C10_IntWitness ==
    /\ ret.op = "GetInt32"
    /\ StoredValue # ""
    /\ ~StoI(StoredValue).ok
    /\ ret.value = ret.defaultValue

(***************************************************************************)
(* Properties of the logger registry                                       *)
(***************************************************************************)
\* C1: every call of GetDefaultLogger returns a usable logger handle: the
\* default logger, or the emergency logger when the default cannot be built
C1_AlwaysReturnsHandle ==
    ret.op = "GetDefaultLogger" => (~ret.threw /\ ret.handle # NullPtr)

\* C1: a call whose default logger could not be built returned the emergency
\* logger
C1_EmergencyReturned ==
    /\ ret.op = "GetDefaultLogger"
    /\ ~ret.threw
    /\ ret.handle # NullPtr
    /\ ret.handle.m_logger.name = "emergency"


\* C3: an Initialize that directly follows a successful Initialize of the
\* same application name leaves the registry, the sink-allocation count and
\* the logger-allocation count as the first call left them, and when it
\* succeeds it has reused the registered logger and made it the default
C3_SecondInitializeReuses ==
    [][(/\ ret.op = "Initialize"
        /\ ret.result = E_SUCCESS
        /\ ret'.op = "Initialize"
        /\ ret'.appName = ret.appName)
       => (/\ g_sinkAllocationCount' = g_sinkAllocationCount
           /\ ms_allocationCount' = ms_allocationCount
           /\ registry' = registry
           /\ (ret'.result = E_SUCCESS
               => (/\ ret'.reused
                   /\ ms_defaultInstance'.m_logger = registry[ret.appName])))]_vars

\* C3: an Initialize found its name registered and reused the logger
C3_Witness ==
    /\ ret.op = "Initialize"
    /\ ret.result = E_SUCCESS
    /\ ret.reused
    /\ ret.appName \in DOMAIN registry
    /\ ms_defaultInstance = [m_logger |-> registry[ret.appName]]

SinkFactories ==
    {"CreateConsoleSink", "CreateFileSink", "CreateSyslogSink", "CreateNullSink"}

\* C4: a sink factory either returns a handle and adds one to the
\* sink-allocation count, or returns an absent handle and leaves the count as
\* it was; at a count of 64 it returns an absent handle, and the count never
\* exceeds 64
C4_SinkAccounting ==
    /\ g_sinkAllocationCount <= k_maxSinkAllocations
    /\ ret.op \in SinkFactories
       => /\ \/ (ret.handle # NullPtr
                 /\ g_sinkAllocationCount = ret.preCount + 1)
             \/ (ret.handle = NullPtr
                 /\ g_sinkAllocationCount = ret.preCount)
          /\ ret.preCount = k_maxSinkAllocations => ret.handle = NullPtr

\* C4: a factory was called at the cap and gave an absent handle
C4_Witness ==
    /\ ret.op \in SinkFactories
    /\ ret.preCount = k_maxSinkAllocations
    /\ ret.handle = NullPtr
    /\ g_sinkAllocationCount = k_maxSinkAllocations

\* C5: the logger a successful Initialize has newly built, registered and made
\* the default holds at least one sink
C5_BuiltLoggerHasSink ==
    (ret.op = "Initialize" /\ ret.result = E_SUCCESS /\ ~ret.reused)
    => (/\ Len(registry[ret.appName].sinks) >= 1
        /\ Len(ms_defaultInstance.m_logger.sinks) >= 1)

\* C5: with the console toggle off and the file sink failing, the logger was
\* built with the console sink of last resort
C5_LastResortConsole ==
    /\ ret.op = "Initialize" /\ ret.result = E_SUCCESS /\ ~ret.reused
    /\ ~GetBool(m_configData, ret.appName, "console_output", TRUE)
    /\ registry[ret.appName].sinks = <<[class |-> "stdout_color_sink_mt"]>>

\* C7: a successful Initialize with file output computed a log-file path of
\* at most 255 characters, and an Initialize whose path logDir/appName/
\* appName.log would be longer returned InvalidParameter
C7_PathBounded ==
    (ret.op = "Initialize" /\ ret.appName # "" /\ ret.logDir # ""
     /\ GetBool(m_configData, ret.appName, "file_output", TRUE))
    => LET dir == GetString(m_configData, "global", "log_dir", ret.logDir)
           path == LogFilePath(dir, ret.appName)
       IN /\ ret.result = E_SUCCESS
             => (ret.logFilePath = path /\ Len(ret.logFilePath) <= k_maxPathLen)
          /\ Len(path) > k_maxPathLen => ret.result = E_INVALID_PARAMETER

\* C7: an Initialize was turned away for the length of its path
C7_Rejected ==
    /\ ret.op = "Initialize" /\ ret.appName # "" /\ ret.logDir # ""
    /\ ret.result = E_INVALID_PARAMETER

(***************************************************************************)
(* Properties of the registry under threads                                *)
(***************************************************************************)
\* C2: no call of InitializeWithConfig is left waiting for ever on the
\* logger-registry lock, and a call with a non-empty application name returns
\* what the Initialize it delegated to returned
C2_ReturnsDelegatedResult ==
    /\ \A t \in Threads : pc[t] # "iwc_blocked"
    /\ (ret.op = "InitializeWithConfig" /\ ret.appName # "") => ret.delegated

\* C2: a call with a non-empty name got through to Initialize and returned
\* its result
C2_Delegated ==
    /\ ret.op = "InitializeWithConfig"
    /\ ret.appName # ""
    /\ ret.delegated
    /\ ret.result = E_SUCCESS

\* the places where a thread's next step reads or writes ms_defaultInstance
ReadsDefaultInstance == {"gdl_body", "macro_deref", "init_body"}
WritesDefaultInstance == {"sd_clear", "gdl_body", "init_body"}

\* C6: a thread about to read or write the default-instance reference owns
\* the logger-registry lock, and no thread is about to clear the reference
\* while another is about to read or dereference it
C6_DefaultInstanceUnderLock ==
    /\ \A t \in Threads :
          (pc[t] \in ReadsDefaultInstance \cup WritesDefaultInstance
           /\ ~(pc[t] = "macro_deref" /\ local[t].ref = "emergencyLogger"))
          => g_loggerMutex = t
    /\ ~\E t, u \in Threads :
          /\ t # u
          /\ pc[t] = "sd_clear"
          /\ pc[u] \in ReadsDefaultInstance
          /\ ~(pc[u] = "macro_deref" /\ local[u].ref = "emergencyLogger")

\* C6: a logging macro dereferenced the reference after Shutdown had emptied it
C6_NullDereference ==
    \E t \in Threads : pc[t] = "crashed"

(***************************************************************************)
(* Properties of the environment overrides                                 *)
(***************************************************************************)
\* the variables LoadFromEnv asks for that are set
SetEnvNames == {n \in 1..Len(EnvNames) : EnvNames[n] \in DOMAIN environ}

\* C11: after LoadFromEnv, for every variable it recognizes that is set,
\* GetString on the lower-cased section and key returns the variable's value
\* cut to 256 characters, whatever a file stored there and however many
\* entries the section holds
C11_EnvOverridesFile ==
    ret.op = "LoadFromEnv" =>
        \A n \in SetEnvNames :
            GetString(m_configData, EnvSection(EnvNames[n]),
                      EnvKey(EnvNames[n]), "")
                = Truncate(environ[EnvNames[n]], k_maxValueLength)

\* C11: a variable replaced the value a file had stored under its key
C11_Overridden ==
    /\ ret.op = "LoadFromEnv"
    /\ ret.result = E_SUCCESS
    /\ "VSNLOG_GLOBAL_LOG_LEVEL" \in DOMAIN environ
    /\ Cardinality(DOMAIN m_configData["global"]) > 1
    /\ m_configData["global"]["log_level"] = environ["VSNLOG_GLOBAL_LOG_LEVEL"]

\* the variables the interface documents
DocumentedEnvNames ==
    {"VSNLOG_GLOBAL_LOG_DIR", "VSNLOG_GLOBAL_LOG_LEVEL",
     "VSNLOG_APP_CONSOLE_OUTPUT", "VSNLOG_APP_FILE_OUTPUT",
     "VSNLOG_APP_FORMAT", "VSNLOG_APP_FILE_PATH", "VSNLOG_APP_MAX_SIZE"}

InitializeRan == ret.op = "Initialize" /\ ret.appName # "" /\ ret.logDir # ""

\* C12: after the LoadFromEnv that Initialize makes, each documented variable
\* that is set is stored in the section its prefix selects under the key its
\* suffix selects, and a set VSNLOG_GLOBAL_LOG_DIR is the log directory of
\* that Initialize
C12_DocumentedVariablesLoaded ==
    InitializeRan =>
        /\ \A name \in DocumentedEnvNames \cap DOMAIN environ :
              /\ HasKey(m_configData, EnvSection(name), EnvKey(name))
              /\ m_configData[EnvSection(name)][EnvKey(name)] = environ[name]
        /\ ("VSNLOG_GLOBAL_LOG_DIR" \in DOMAIN environ
            /\ ret.result = E_SUCCESS /\ ret.useFile)
           => ret.logFilePath
                  = LogFilePath(environ["VSNLOG_GLOBAL_LOG_DIR"], ret.appName)

\* C12: the variables LoadFromEnv does ask for were stored by Initialize
C12_RecognizedLoaded ==
    /\ InitializeRan
    /\ ret.result = E_SUCCESS
    /\ "VSNLOG_APP_FORMAT" \in DOMAIN environ
    /\ HasKey(m_configData, "app", "format")
    /\ m_configData["app"]["format"] = environ["VSNLOG_APP_FORMAT"]
    /\ m_configData["app"]["max_size"] = environ["VSNLOG_APP_MAX_SIZE"]

(***************************************************************************)
(* Properties of the logging calls                                         *)
(***************************************************************************)
\* C13: on a logger whose handle is present, a logging call returns
\* InvalidParameter exactly when the format string is null or longer than 256
\* characters, and then the engine's log is not called; a format string of
\* at most 256 characters is dispatched
C13_FormatBound ==
    (ret.op = "LogWithLocation" /\ ms_defaultInstance.m_logger # NullPtr)
    => /\ ret.result = E_INVALID_PARAMETER
             <=> (ret.fmtNull \/ ret.fmtLen > k_maxMessageLength)
       /\ ret.result = E_INVALID_PARAMETER => ~ret.dispatched
       /\ (~ret.fmtNull /\ ret.fmtLen <= k_maxMessageLength) => ret.dispatched

\* C13: a format string of exactly 256 characters was dispatched
C13_AtBound ==
    /\ ret.op = "LogWithLocation"
    /\ ~ret.fmtNull
    /\ ret.fmtLen = k_maxMessageLength
    /\ ret.dispatched
    /\ ret.result = E_SUCCESS

\* C14: no exception leaves a logging call, and a call in which the engine
\* raised returns UnknownError
C14_NoExceptionEscapes ==
    ret.op = "LogWithLocation"
    => /\ ~ret.threw
       /\ (ret.dispatched /\ ret.engineThrows) => ret.result = E_UNKNOWN_ERROR

\* C14: the engine raised during a dispatched call
C14_EngineRaised ==
    /\ ret.op = "LogWithLocation"
    /\ ret.dispatched
    /\ ret.engineThrows
    /\ ret.result = E_UNKNOWN_ERROR

(***************************************************************************)
(* Properties of Initialize, Shutdown and the default logger               *)
(***************************************************************************)
\* C15: Initialize called with an empty application name or an empty log
\* directory returns InvalidParameter, whatever the other argument, the
\* registry and the sink counter are
C15_EmptyArgumentRejected ==
    (ret.op = "Initialize" /\ (ret.appName = "" \/ ret.logDir = ""))
    => ret.result = E_INVALID_PARAMETER

\* C15: an empty log directory was rejected while a logger of that name is
\* registered
C15_RejectedWithRegistry ==
    /\ ret.op = "Initialize"
    /\ ret.appName = "svc"
    /\ ret.logDir = ""
    /\ ret.result = E_INVALID_PARAMETER
    /\ SpdlogGet(registry, "svc") # NullPtr

\* C16: after Shutdown the default instance is absent and the engine holds
\* no logger, and the GetDefaultLogger that follows creates the console-only
\* logger "default" again, makes it the default and emits the warning
C16_ShutdownThenLazyDefault ==
    [][(ret.op = "Shutdown" /\ ret.result = E_SUCCESS)
       => /\ ms_defaultInstance = NullPtr
          /\ registry = NoRegistry
          /\ ret'.op = "GetDefaultLogger"
             => /\ ~ret'.threw
                /\ ret'.warned
                /\ ms_defaultInstance' # NullPtr
                /\ ret'.handle = ms_defaultInstance'
                /\ ms_defaultInstance'.m_logger.name = "default"
                /\ Len(ms_defaultInstance'.m_logger.sinks) = 1
                /\ SpdlogGet(registry', "default")
                       = ms_defaultInstance'.m_logger]_vars

\* C16: the logger "default" was created again after a Shutdown had dropped
\* an earlier logger
C16_CreatedAgain ==
    /\ ret.op = "GetDefaultLogger"
    /\ ret.warned
    /\ ms_allocationCount > 1
    /\ DOMAIN registry = {"default"}
    /\ ms_defaultInstance.m_logger.name = "default"

\* C17: a successful Initialize leaves as default the logger registered
\* under its application name, a logger other than that of any other name
\* and with the loggers registered before still registered; until the next
\* successful Initialize or Shutdown the default stays that logger and
\* GetDefaultLogger returns it
C17_DefaultIsLatestInitialized ==
    [][IF ret'.op = "Initialize" /\ ret'.result = E_SUCCESS
       THEN /\ ms_defaultInstance' # NullPtr
            /\ ms_defaultInstance'.m_logger = SpdlogGet(registry', ret'.appName)
            /\ ms_defaultInstance'.m_logger.name = ret'.appName
            /\ \A n \in DOMAIN registry :
                  /\ SpdlogGet(registry', n) = registry[n]
                  /\ n # ret'.appName
                     => registry[n] # ms_defaultInstance'.m_logger
       ELSE (ret'.op # "Shutdown" /\ ms_defaultInstance # NullPtr)
            => /\ ms_defaultInstance' = ms_defaultInstance
               /\ ret'.op = "GetDefaultLogger"
                  => (~ret'.threw /\ ret'.handle = ms_defaultInstance)]_vars

\* C17: GetDefaultLogger returned the logger of the second application name
\* while the logger of the first is still registered
C17_SecondNameIsDefault ==
    /\ ret.op = "GetDefaultLogger"
    /\ ret.handle # NullPtr
    /\ ret.handle.m_logger.name = "app"
    /\ ret.handle.m_logger = SpdlogGet(registry, "app")
    /\ SpdlogGet(registry, "svc") # NullPtr

(***************************************************************************)
(* Properties of the sink sets                                             *)
(***************************************************************************)
\* C18: CreateMultiSink never returns an empty set: with no sink requested,
\* or with every requested sink failed, it returns exactly one console sink
C18_FallbackConsole ==
    ret.op = "CreateMultiSink"
    => /\ ret.sinks # <<>>
       /\ (~ret.console /\ ret.logFile = "" /\ ~ret.syslog)
          => ret.sinks = <<[class |-> "stdout_color_sink_mt"]>>

\* C18: a call that requested nothing returned the one console sink
C18_NothingRequested ==
    /\ ret.op = "CreateMultiSink"
    /\ ~ret.console /\ ret.logFile = "" /\ ~ret.syslog
    /\ ret.sinks = <<[class |-> "stdout_color_sink_mt"]>>

\* C19: every registered logger, whether built by Initialize or by the
\* constructor with a log file from a CreateMultiSink result, holds at most
\* 8 sinks, and the limit applied to a larger vector keeps its first 8
\* entries
C19_AtMostEightSinks ==
    /\ \A n \in DOMAIN registry : Len(registry[n].sinks) <= k_maxSinks
    /\ ret.op = "SinkLimit"
       => ret.kept = SubSeq(ret.given, 1,
                            IF Len(ret.given) <= k_maxSinks
                            THEN Len(ret.given) ELSE k_maxSinks)

\* C19: a vector of more than 8 sinks was cut to 8 while a logger of three
\* sinks and a logger of two sinks are registered
C19_Truncated ==
    /\ ret.op = "SinkLimit"
    /\ Len(ret.given) > k_maxSinks
    /\ Len(ret.kept) = k_maxSinks
    /\ SpdlogGet(registry, "svc") # NullPtr
    /\ Len(registry["svc"].sinks) = 3
    /\ SpdlogGet(registry, "filelog") # NullPtr
    /\ Len(registry["filelog"].sinks) = 2

EntriesKept(before, after) ==
    \A s \in DOMAIN before :
        /\ s \in DOMAIN after
        /\ \A k \in DOMAIN before[s] : k \in DOMAIN after[s]

\* C21: LoadFromFile returns ResourceUnavailable only at a section header
\* that names a section the store does not hold while the store holds 32
\* sections, and then every entry stored before, those of the same file
\* included, is still in the store
C21_CapErrorOnlyForNewSection ==
    [][(ret'.op = "LoadFromFile" /\ ret'.result = E_RESOURCE_UNAVAILABLE)
       => LET lines == FileSystem[ret'.configFile] IN
          /\ ret'.at \in HeaderLines(lines)
          /\ HeaderName(lines, ret'.at) \notin DOMAIN m_configData'
          /\ Cardinality(DOMAIN m_configData') = k_maxSections
          /\ EntriesKept(m_configData, m_configData')
          /\ \A i \in HeaderLines(lines) :
                i < ret'.at
                => /\ HeaderName(lines, i) \in DOMAIN m_configData'
                   /\ (i + 1 < ret'.at /\ KeyValueMatch(Trim(lines[i + 1])))
                      => HasKey(m_configData', HeaderName(lines, i),
                                Trim(KeyCapture(Trim(lines[i + 1]))))]_vars

\* C21: a load stopped at the header of a section the store does not hold,
\* and the entry of the first section of that file is in the store
C21_NewSectionRefused ==
    /\ ret.op = "LoadFromFile"
    /\ ret.configFile = "many.conf"
    /\ ret.result = E_RESOURCE_UNAVAILABLE
    /\ HeaderName(FileSystem[ret.configFile], ret.at) \notin DOMAIN m_configData
    /\ HasKey(m_configData, "s1", "id")

\* the first n characters of s, all of s when it has no more
FirstChars(s, n) == SubSeq(s, 1, IF Len(s) <= n THEN Len(s) ELSE n)

\* the key and the value a key=value line of a file spells out
LineKey(line) == Trim(KeyCapture(Trim(line)))
LineValue(line) == Trim(ValueCapture(Trim(line)))

\* C22: a load does not fail or drop an entry for the length of its key or
\* value: every entry of the file of long entries is stored under the first
\* 64 characters of its key with the first 256 characters of its value, and
\* every recognized variable of the environment is stored with the first 256
\* characters of its value
C22_LongEntriesTruncated ==
    /\ (ret.op = "LoadFromFile" /\ ret.configFile = "long.conf")
       => /\ ret.result = E_SUCCESS
          /\ \A i \in 1..Len(LongConf) :
                /\ HasKey(m_configData, "global",
                          FirstChars(LineKey(LongConf[i]), k_maxKeyLength))
                /\ m_configData["global"][FirstChars(LineKey(LongConf[i]),
                                                     k_maxKeyLength)]
                       = FirstChars(LineValue(LongConf[i]), k_maxValueLength)
    /\ ret.op = "LoadFromEnv"
       => \A n \in SetEnvNames :
             /\ ret.result = E_SUCCESS
             /\ HasKey(m_configData, EnvSection(EnvNames[n]), EnvKey(EnvNames[n]))
             /\ m_configData[EnvSection(EnvNames[n])][EnvKey(EnvNames[n])]
                    = FirstChars(environ[EnvNames[n]], k_maxValueLength)

\* C22: a key of more than 64 characters and a value of more than 256
\* characters were loaded from the file, and a value of more than 256
\* characters from the environment
C22_LongLoaded ==
    /\ ret.op = "LoadFromEnv"
    /\ \E n \in SetEnvNames : Len(environ[EnvNames[n]]) > k_maxValueLength
    /\ HasKey(m_configData, "global", Rep("b", k_maxKeyLength))
    /\ Len(m_configData["global"][Rep("b", k_maxKeyLength)]) = k_maxValueLength
    /\ Len(m_configData["global"]["file_path"]) = k_maxValueLength

\* C23: Set returns InvalidParameter and leaves the store as it was when the
\* section or the key is empty, the key is longer than 64 or the value longer
\* than 256 characters; for a section the store does not hold it returns
\* ResourceUnavailable and leaves the store as it was when 32 sections
\* exist, and creates the section and stores the entry otherwise
C23_SetValidatesFirst ==
    [][ret'.op = "Set"
       => LET bad == \/ ret'.section = "" \/ ret'.key = ""
                     \/ Len(ret'.key) > k_maxKeyLength
                     \/ Len(ret'.value) > k_maxValueLength
              isNew == ret'.section \notin DOMAIN m_configData
              full == Cardinality(DOMAIN m_configData) >= k_maxSections
          IN IF bad
             THEN ret'.result = E_INVALID_PARAMETER /\ UNCHANGED configVars
             ELSE IF isNew /\ full
             THEN ret'.result = E_RESOURCE_UNAVAILABLE /\ UNCHANGED configVars
             ELSE /\ ret'.result # E_INVALID_PARAMETER
                  /\ isNew
                     => /\ ret'.result = E_SUCCESS
                        /\ DOMAIN m_configData'
                               = DOMAIN m_configData \cup {ret'.section}
                        /\ g_sectionCount' = g_sectionCount + 1
                  /\ ret'.result = E_SUCCESS
                     => /\ HasKey(m_configData', ret'.section, ret'.key)
                        /\ m_configData'[ret'.section][ret'.key] = ret'.value]_vars

\* C23: a Set with valid arguments for a section the store does not hold was
\* turned away at 32 sections
C23_RefusedAtCap ==
    /\ ret.op = "Set"
    /\ ret.section = "new"
    /\ Len(ret.key) = k_maxKeyLength
    /\ Len(ret.value) = k_maxValueLength
    /\ ret.result = E_RESOURCE_UNAVAILABLE
    /\ Cardinality(DOMAIN m_configData) = k_maxSections
    /\ "new" \notin DOMAIN m_configData

\* the section and key each recognized variable is to be stored under
RecognizedEntry ==
    [n \in {"VSNLOG_GLOBAL_LOG_LEVEL", "VSNLOG_GLOBAL_FORMAT",
            "VSNLOG_GLOBAL_FILE_PATH", "VSNLOG_GLOBAL_MAX_SIZE",
            "VSNLOG_APP_LOG_LEVEL", "VSNLOG_APP_FORMAT",
            "VSNLOG_APP_FILE_PATH", "VSNLOG_APP_MAX_SIZE"} |->
        CASE n = "VSNLOG_GLOBAL_LOG_LEVEL" -> <<"global", "log_level">>
          [] n = "VSNLOG_GLOBAL_FORMAT" -> <<"global", "format">>
          [] n = "VSNLOG_GLOBAL_FILE_PATH" -> <<"global", "file_path">>
          [] n = "VSNLOG_GLOBAL_MAX_SIZE" -> <<"global", "max_size">>
          [] n = "VSNLOG_APP_LOG_LEVEL" -> <<"app", "log_level">>
          [] n = "VSNLOG_APP_FORMAT" -> <<"app", "format">>
          [] n = "VSNLOG_APP_FILE_PATH" -> <<"app", "file_path">>
          [] n = "VSNLOG_APP_MAX_SIZE" -> <<"app", "max_size">>]

RecognizedSet == DOMAIN RecognizedEntry \cap DOMAIN environ

\* C24: LoadFromEnv returns NotInitialized exactly when no recognized
\* variable is set and Success otherwise, and every recognized variable that
\* is set is then stored under its lower-cased section and option
C24_ResultTellsWhetherAnySet ==
    ret.op = "LoadFromEnv"
    => /\ ret.result = E_NOT_INITIALIZED <=> RecognizedSet = {}
       /\ RecognizedSet # {} => ret.result = E_SUCCESS
       /\ \A n \in RecognizedSet :
             HasKey(m_configData, RecognizedEntry[n][1], RecognizedEntry[n][2])

\* C24: variables of the APP prefix were found and stored under "app" and
\* the lower-cased options
C24_StoredLowerCased ==
    /\ ret.op = "LoadFromEnv"
    /\ ret.result = E_SUCCESS
    /\ {"VSNLOG_APP_FORMAT", "VSNLOG_APP_MAX_SIZE"} \subseteq RecognizedSet
    /\ HasKey(m_configData, "app", "format")
    /\ m_configData["app"]["format"] = environ["VSNLOG_APP_FORMAT"]
    /\ m_configData["app"]["max_size"] = environ["VSNLOG_APP_MAX_SIZE"]

(***************************************************************************)
(* Properties of the formatters                                            *)
(***************************************************************************)
RecognizedFormats ==
    {"json", "console", "simple", "minimal", "colored", "detailed"}

\* C25 as stated: GetPattern returns Success and a non-empty pattern for
\* every format name, and for every name other than the six recognized ones
\* the pattern of GetPattern("default")
C25_Total ==
    ret.op = "GetPattern"
    => /\ ret.result = E_SUCCESS
       /\ ret.pattern # ""
       /\ ret.formatName \notin RecognizedFormats
          => ret.pattern = GetPattern("default", "").pattern

\* C25 amended: GetPattern returns Success and a non-empty pattern for every
\* non-empty format name, and for every non-empty name other than the six
\* recognized ones the pattern of GetPattern("default"); for the empty name
\* it returns InvalidParameter and leaves the caller's pattern as it was
C25_TotalOnNonEmptyNames ==
    ret.op = "GetPattern"
    => IF ret.formatName = ""
       THEN ret.result = E_INVALID_PARAMETER /\ ret.pattern = ret.prior
       ELSE /\ ret.result = E_SUCCESS
            /\ ret.pattern # ""
            /\ ret.formatName \notin RecognizedFormats
               => ret.pattern = DefaultPattern

\* C25: a name that is not recognized was given the default pattern
C25_UnknownName ==
    /\ ret.op = "GetPattern"
    /\ ret.formatName = "unknown-name"
    /\ ret.prior = ""
    /\ ret.result = E_SUCCESS
    /\ ret.pattern = DefaultPattern

\* A reader of JSON text, as a consumer of the formatter's output would
\* read it: the text is cut into tokens, a string token carrying the text it
\* decodes to.  A string ends at the first quote that no backslash escapes;
\* inside one, a backslash starts one of the escapes of JSON and a character
\* below 0x20 is not allowed.
HexValue(c) ==
    IF c >= 48 /\ c <= 57 THEN c - 48
    ELSE IF c >= 97 /\ c <= 102 THEN c - 87
    ELSE IF c >= 65 /\ c <= 70 THEN c - 55
    ELSE -1

SimpleEscapes == {34, 92, 47, 98, 102, 110, 114, 116}

Unescaped(e) ==
    CASE e = 98 -> 8 [] e = 102 -> 12 [] e = 110 -> 10 [] e = 114 -> 13
      [] e = 116 -> 9 [] OTHER -> e

\* the text a string's content decodes to, from its i-th character on; -1
\* stands where the content is not that of a JSON string
RECURSIVE DecodeFrom(_, _)
DecodeFrom(content, i) ==
    IF i > Len(content) THEN <<>>
    ELSE IF content[i] < 32 \/ content[i] = 34 THEN <<-1>>
    ELSE IF content[i] # 92
    THEN <<content[i]>> \o DecodeFrom(content, i + 1)
    ELSE IF i + 1 > Len(content) THEN <<-1>>
    ELSE IF content[i + 1] \in SimpleEscapes
    THEN <<Unescaped(content[i + 1])>> \o DecodeFrom(content, i + 2)
    ELSE IF /\ content[i + 1] = 117
            /\ i + 5 <= Len(content)
            /\ \A k \in 2..5 : HexValue(content[i + k]) >= 0
    THEN <<4096 * HexValue(content[i + 2]) + 256 * HexValue(content[i + 3])
              + 16 * HexValue(content[i + 4]) + HexValue(content[i + 5])>>
             \o DecodeFrom(content, i + 6)
    ELSE <<-1>>

\* the number of backslashes that directly precede position j, none of them
\* before position lo
RECURSIVE BackslashRun(_, _, _)
BackslashRun(text, lo, j) ==
    IF j - 1 < lo \/ text[j - 1] # 92 THEN 0
    ELSE 1 + BackslashRun(text, lo, j - 1)

\* the quote that closes the string whose content starts at lo, looked for
\* from j on; 0 when there is none
RECURSIVE ClosingQuote(_, _, _)
ClosingQuote(text, lo, j) ==
    IF j > Len(text) THEN 0
    ELSE IF text[j] = 34 /\ BackslashRun(text, lo, j) % 2 = 0 THEN j
    ELSE ClosingQuote(text, lo, j + 1)

StringToken(d) ==
    [kind |-> IF \E k \in 1..Len(d) : d[k] = -1 THEN "bad" ELSE "string",
     code |-> 34, str |-> d]

\* the tokens from position i on
RECURSIVE ReadTokens(_, _)
ReadTokens(text, i) ==
    IF i > Len(text) THEN <<>>
    ELSE IF text[i] # 34
    THEN <<[kind |-> "punct", code |-> text[i], str |-> <<>>]>>
             \o ReadTokens(text, i + 1)
    ELSE CHOOSE toks \in
            {IF close = 0 THEN <<[kind |-> "bad", code |-> 34, str |-> <<>>]>>
             ELSE <<StringToken(DecodeFrom(SubSeq(text, i + 1, close - 1), 1))>>
                      \o ReadTokens(text, close + 1) :
                close \in {ClosingQuote(text, i + 1, i + 1)}} : TRUE

\* the tokens are those of one object of string members:
\* { string : string ( , string : string )* }
IsObjectOfStrings(toks) ==
    /\ Len(toks) >= 5
    /\ Len(toks) % 4 = 1
    /\ \A j \in 1..Len(toks) :
          CASE j = 1 -> toks[j].kind = "punct" /\ toks[j].code = 123
            [] j = Len(toks) -> toks[j].kind = "punct" /\ toks[j].code = 125
            [] j % 4 = 2 -> toks[j].kind = "string"
            [] j % 4 = 3 -> toks[j].kind = "punct" /\ toks[j].code = 58
            [] j % 4 = 0 -> toks[j].kind = "string"
            [] OTHER -> toks[j].kind = "punct" /\ toks[j].code = 44

\* the members of such an object, in order, as <<name, value>> pairs
Members(toks) ==
    [m \in 1..((Len(toks) - 1) \div 4) |->
        <<toks[4 * m - 2].str, toks[4 * m].str>>]

\* the members ToJson is to write for its arguments
MemberNames ==
    [n \in {"timestamp", "level", "component", "message"} |-> Codes(n)]

ExpectedMembers(r) ==
    << <<MemberNames["timestamp"], r.timestamp>>,
       <<MemberNames["level"], r.level>> >>
        \o (IF r.component # <<>>
            THEN << <<MemberNames["component"], r.component>> >> ELSE <<>>)
        \o << <<MemberNames["message"], r.message>> >>
        \o r.fields

\* C26: for a non-empty message and level ToJson returns Success and a text
\* that reads as one JSON object of string members, no string of which holds
\* a raw quote, backslash or control character, and whose members decode to
\* exactly the level, component, message and additional fields given; with
\* an empty message or an empty level ToJson, ToSyslog and ToConsole return
\* InvalidParameter
C26_JsonEscaped ==
    /\ ret.op \in {"ToJson", "ToSyslog", "ToConsole"}
       => (ret.result = E_INVALID_PARAMETER
              <=> (ret.message = <<>> \/ ret.level = <<>>))
    /\ (ret.op = "ToJson" /\ ret.message # <<>> /\ ret.level # <<>>)
       => /\ ret.result = E_SUCCESS
          /\ \A toks \in {ReadTokens(ret.text, 1)} :
                /\ IsObjectOfStrings(toks)
                /\ Members(toks) = ExpectedMembers(ret)

\* C26: a message of a backslash followed by a quote, a level that is a
\* quote and a field value of quote and backslash were written as JSON
C26_HostileStrings ==
    /\ ret.op = "ToJson"
    /\ ret.result = E_SUCCESS
    /\ ret.message = <<92, 34>>
    /\ ret.level = <<34>>
    /\ ret.component = <<92, 34>>
    /\ Len(ret.fields) = 2

(***************************************************************************)
(* The Logger constructors called by application threads.  A constructor   *)
(* takes no lock.  Its ++ms_allocationCount on a plain integer is a load   *)
(* and a store, and with another thread writing the counter in between the *)
(* behaviour is undefined; the outcomes followed here are those of the     *)
(* load and the store taken as two steps.                                  *)
(***************************************************************************)
CtorNames == {"worker", "audit"}

CtorCall(t) ==
    /\ \E name \in CtorNames :
          Start(t, "ctor_body",
                [NoLocals EXCEPT !.op = "Logger", !.appName = name])
    /\ UNCHANGED <<configVars, environ, loggerVars, g_loggerMutex, ret>>

\* the constructor down to its increment: the cap, spdlog::get, the console
\* sink, the registration
CtorBody(t) ==
    /\ Running
    /\ pc[t] = "ctor_body"
    /\ LET r == LoggerCtor(registry, ms_allocationCount,
                           g_sinkAllocationCount, local[t].appName)
       IN /\ registry' = r.registry
          /\ g_sinkAllocationCount' = r.sinkCount
          /\ UNCHANGED g_sinkMutex
          /\ IF r.alloc = ms_allocationCount
             THEN /\ pc' = [pc EXCEPT ![t] = "idle"]
                  /\ local' = [local EXCEPT ![t] = NoLocals]
                  /\ ret' = [op |-> "Logger", thread |-> t,
                             threw |-> r.threw]
             ELSE /\ pc' = [pc EXCEPT ![t] = "ctor_load"]
                  /\ UNCHANGED <<local, ret>>
    /\ UNCHANGED <<configVars, environ, ms_defaultInstance,
                   ms_allocationCount, emergencyLogger, g_loggerMutex, calls>>

\* ++Logger::ms_allocationCount: the load
CtorLoad(t) ==
    /\ Running
    /\ pc[t] = "ctor_load"
    /\ local' = [local EXCEPT ![t].seen = ms_allocationCount]
    /\ pc' = [pc EXCEPT ![t] = "ctor_store"]
    /\ UNCHANGED <<configVars, environ, loggerVars, g_loggerMutex, calls, ret>>

\* ++Logger::ms_allocationCount: the store, and the constructor's return
CtorStore(t) ==
    /\ Running
    /\ pc[t] = "ctor_store"
    /\ ms_allocationCount' = local[t].seen + 1
    /\ pc' = [pc EXCEPT ![t] = "idle"]
    /\ local' = [local EXCEPT ![t] = NoLocals]
    /\ ret' = [op |-> "Logger", thread |-> t, threw |-> FALSE]
    /\ UNCHANGED <<configVars, environ, ms_defaultInstance,
                   g_sinkAllocationCount, g_sinkMutex, registry, emergencyLogger,
                   g_loggerMutex, calls>>

\* loggers constructed by the application's threads and by GetDefaultLogger
NextCtor ==
    \E t \in Threads :
        \/ MacroCall(t)
        \/ GdlLock(t)
        \/ GdlBody(t)
        \/ MacroDeref(t)
        \/ CtorCall(t)
        \/ CtorBody(t)
        \/ CtorLoad(t)
        \/ CtorStore(t)

SpecCtor == InitNoEnv /\ [][NextCtor]_vars

\* the application's other threads have not made their first call
MainAlone == \A t \in Threads : calls[t] = 0

\* the main thread constructs a logger before it starts the other threads
MainCtor == MainAlone /\ AppLoggerCtor({"main"})

\* the main thread shuts the engine down before it starts the other threads
MainShutdown == MainAlone /\ AppShutdown

\* constructions by the main thread, round after round, then by the other
\* threads side by side
NextCap ==
    \/ MainCtor
    \/ MainShutdown
    \/ \E t \in Threads :
          \/ CtorCall(t)
          \/ CtorBody(t)
          \/ CtorLoad(t)
          \/ CtorStore(t)

SpecCap == InitNoEnv /\ [][NextCap]_vars

(***************************************************************************)
(* Properties of the locks                                                 *)
(***************************************************************************)
\* the places of a call where the table is read or written
TablePlaces == {"store_body", "init_env"}

\* C27: every operation of the configuration store reads and writes the
\* section table only while it holds g_configMutex: a thread inside the
\* part of an operation that touches the table owns the mutex, so no two
\* threads are inside at once, and every change of the table is one step of
\* the owner, which ends its operation's access
C27_TableOnlyUnderLock ==
    /\ [](\A t \in Threads : pc[t] \in TablePlaces => g_configMutex = t)
    /\ [][<<m_configData, g_sectionCount>>' # <<m_configData, g_sectionCount>>
            => /\ g_configMutex \in Threads
               /\ pc[g_configMutex] \in TablePlaces
               /\ pc'[g_configMutex] \notin TablePlaces
               /\ g_configMutex' = Free]_vars

\* C27: one thread is writing the table under the lock while the other
\* waits at its lock_guard to read it
C27_WriterHoldsReaderWaits ==
    \E t \in Threads, u \in Threads :
        /\ t # u
        /\ pc[t] = "store_body"
        /\ local[t].op = "Set"
        /\ g_configMutex = t
        /\ pc[u] = "store_lock"
        /\ local[u].op = "GetInt32"

\* C28: no thread holds g_loggerMutex at the moment it acquires
\* g_configMutex
C28_StoreLockedWithRegistryFree ==
    [][\A t \in Threads :
          (g_configMutex # t /\ g_configMutex' = t) => g_loggerMutex # t]_vars

\* C28: a thread inside Initialize, holding g_loggerMutex, has taken
\* g_configMutex for LoadFromEnv
C28_BothHeld ==
    \E t \in Threads :
        /\ pc[t] = "init_env"
        /\ local[t].op = "Initialize"
        /\ g_loggerMutex = t
        /\ g_configMutex = t

\* C29: ms_allocationCount changes only in a step of the thread that holds
\* g_loggerMutex
C29_CountedUnderRegistryLock ==
    [][ms_allocationCount' # ms_allocationCount
          => /\ g_loggerMutex \in Threads
             /\ pc'[g_loggerMutex] # pc[g_loggerMutex]]_vars

\* C29: a thread that called the constructor itself is about to store its
\* increment, without the mutex, after the counter moved on under it
C29_UnlockedIncrement ==
    \E t \in Threads :
        /\ pc[t] = "ctor_store"
        /\ local[t].op = "Logger"
        /\ g_loggerMutex # t
        /\ local[t].seen < ms_allocationCount

\* C30: g_sinkAllocationCount is lowered by Shutdown and by nothing else,
\* and a Shutdown that finds it at the cap leaves it below the cap
C30_ShutdownLowersSinkCount ==
    [][/\ g_sinkAllocationCount' < g_sinkAllocationCount
          => ret'.op = "Shutdown"
       /\ (ret'.op = "Shutdown"
              /\ g_sinkAllocationCount = k_maxSinkAllocations)
          => g_sinkAllocationCount' < k_maxSinkAllocations]_vars

\* C30: Shutdown has run on a process whose counter stands at the cap
C30_ShutdownAtCap ==
    /\ ret.op = "Shutdown"
    /\ registry = NoRegistry
    /\ g_sinkAllocationCount = k_maxSinkAllocations

(***************************************************************************)
(* Properties of Initialize and of the store's tables                      *)
(***************************************************************************)
\* the number of sinks the toggles opt ask for
Requested(opt) ==
    (IF opt.useConsole THEN 1 ELSE 0) + (IF opt.useFile THEN 1 ELSE 0)
        + (IF opt.useSyslog THEN 1 ELSE 0)

\* C31: an Initialize for a name the engine does not hold, with fewer sinks
\* created than requested but at least one, returns Success, registers the
\* logger with exactly the sinks that were created and makes it the default;
\* the created sinks are counted, every other registered logger, the logger
\* counter and what the environment put into the store stay as they are
C31_ProceedsWithCreatedSinks ==
    [][(/\ ret'.op = "Initialize"
        /\ ret'.appName \notin DOMAIN registry
        /\ ret'.appName \in DOMAIN registry'
        /\ Len(registry'[ret'.appName].sinks) > 0
        /\ Len(registry'[ret'.appName].sinks)
              < Requested(ReadOptions(m_configData', ret'.appName,
                                      ret'.logDir)))
       => /\ ret'.result = E_SUCCESS
          /\ ms_defaultInstance' = [m_logger |-> registry'[ret'.appName]]
          /\ g_sinkAllocationCount'
                = g_sinkAllocationCount + Len(registry'[ret'.appName].sinks)
          /\ \A n \in DOMAIN registry : registry'[n] = registry[n]
          /\ ms_allocationCount' = ms_allocationCount
          /\ m_configData'
                = LoadFromEnv(m_configData, g_sectionCount, environ).data]_vars

\* C31: the file sink could not be opened and the logger was registered with
\* the console and syslog sinks alone
C31_FileSinkMissing ==
    /\ ret.op = "Initialize"
    /\ ret.result = E_SUCCESS
    /\ ret.useFile
    /\ ~ret.reused
    /\ ret.appName \in DOMAIN registry
    /\ registry[ret.appName].sinks
          = <<[class |-> "stdout_color_sink_mt"], [class |-> "syslog_sink_mt"]>>
    /\ g_sinkAllocationCount = 2

\* C32: the store holds between 1 and k_maxSections sections, "global"
\* among them, g_sectionCount is the number of sections in the table, and
\* no step removes a section or an entry of a section
C32_SectionTableBounded ==
    /\ [](/\ Cardinality(DOMAIN m_configData) \in 1..k_maxSections
          /\ "global" \in DOMAIN m_configData
          /\ g_sectionCount = Cardinality(DOMAIN m_configData))
    /\ [][\A s \in DOMAIN m_configData :
             /\ s \in DOMAIN m_configData'
             /\ DOMAIN m_configData[s] \subseteq DOMAIN m_configData'[s]]_vars

\* C32: with the table full, Set was asked for one section more
C32_FullTable ==
    /\ Cardinality(DOMAIN m_configData) = k_maxSections
    /\ ret.op = "Set"
    /\ ret.section \notin DOMAIN m_configData
    /\ ret.key # ""
    /\ ret.result = E_RESOURCE_UNAVAILABLE

\* the number of entries of a section
EntryCount(data, section) == Cardinality(DOMAIN data[section])

\* C33: no section holds more than k_maxEntriesPerSection entries; a Set on
\* a section that holds that many returns ResourceUnavailable for a key the
\* section does not hold and leaves the store as it is, and for a key the
\* section holds it returns Success and stores the value, every other entry
\* staying as it is
C33_EntriesBounded ==
    /\ [](\A s \in DOMAIN m_configData :
             EntryCount(m_configData, s) <= k_maxEntriesPerSection)
    /\ [][(/\ ret'.op = "Set"
           /\ ret'.section \in DOMAIN m_configData
           /\ EntryCount(m_configData, ret'.section) = k_maxEntriesPerSection)
          => IF ret'.key \in DOMAIN m_configData[ret'.section]
             THEN /\ ret'.result = E_SUCCESS
                  /\ m_configData'
                        = [m_configData EXCEPT
                              ![ret'.section][ret'.key] = ret'.value]
                  /\ g_sectionCount' = g_sectionCount
             ELSE /\ ret'.result = E_RESOURCE_UNAVAILABLE
                  /\ m_configData' = m_configData
                  /\ g_sectionCount' = g_sectionCount]_vars

\* C33: Set was refused on the full section "global"
C33_FullSectionRefuses ==
    /\ EntryCount(m_configData, "global") = k_maxEntriesPerSection
    /\ ret.op = "Set"
    /\ ret.section = "global"
    /\ ret.key = "extra"
    /\ ret.result = E_RESOURCE_UNAVAILABLE

(***************************************************************************)
(* Properties of the pattern table                                         *)
(***************************************************************************)
FormatKinds == E_JSON..E_DEFAULT

\* two calls of GetPattern(E_FormatType), one after the other, for two
\* different format kinds
TwoKinds ==
    /\ ret.op = "GetPatternByType"
    /\ ret'.op = "GetPatternByType"
    /\ ret.formatType \in FormatKinds
    /\ ret'.formatType \in FormatKinds
    /\ ret.formatType # ret'.formatType

\* C34 as stated: no two distinct format kinds of the seven map to the same
\* pattern string
C34_OneToOne ==
    [][TwoKinds => ret.pattern # ret'.pattern]_vars

\* C34 amended: two distinct format kinds map to the same pattern string
\* exactly when they are console and default
C34_OneToOneButConsole ==
    [][TwoKinds => (ret.pattern = ret'.pattern
                       <=> {ret.formatType, ret'.formatType}
                              = {E_CONSOLE, E_DEFAULT})]_vars

\* C34: the pattern handed out for console is the default pattern
C34_ConsoleIsDefault ==
    /\ ret.op = "GetPatternByType"
    /\ ret.formatType = E_CONSOLE
    /\ ret.result = E_SUCCESS
    /\ ret.pattern = DefaultPattern

(***************************************************************************)
(* Properties of the lock order                                            *)
(***************************************************************************)
\* C35: a thread takes g_loggerMutex holding no other lock, never holds
\* g_configMutex and g_sinkMutex together, and every call a thread has
\* started returns
C35_OrderedLocksNoDeadlock ==
    /\ [](\A t \in Threads : ~(g_configMutex = t /\ g_sinkMutex = t))
    /\ [][\A t \in Threads :
             (g_loggerMutex # t /\ g_loggerMutex' = t)
                => (g_configMutex # t /\ g_sinkMutex # t)]_vars
    /\ \A t \in Threads : (pc[t] # "idle") ~> (pc[t] = "idle")

\* C35: one thread inside Initialize holds g_loggerMutex and waits for
\* g_sinkMutex, which the other thread holds inside a sink factory
C35_WaitsForSinkLock ==
    \E t \in Threads, u \in Threads :
        /\ pc[t] = "init_sink_lock"
        /\ g_loggerMutex = t
        /\ pc[u] = "sink_body"
        /\ g_sinkMutex = u

\* the places of Initialize under its lock_guard on g_loggerMutex
InitPlaces ==
    {"init_validate", "init_env_lock", "init_env", "init_options",
     "init_build", "init_sink_lock", "init_sinks"}

\* C36: threads calling Initialize with one application name are inside it
\* one at a time; the call that finds no logger of that name builds the
\* sinks and registers the logger, every later one finds and reuses it, and
\* the sinks counted are those of that one logger
C36_OneBuildsOthersReuse ==
    /\ [](\A t \in Threads : pc[t] \in InitPlaces => g_loggerMutex = t)
    /\ [](/\ DOMAIN registry \subseteq {"svc"}
          /\ g_sinkAllocationCount
                = IF "svc" \in DOMAIN registry
                  THEN Len(registry["svc"].sinks) ELSE 0)
    /\ [][\A t \in Threads :
             (/\ pc[t] \in {"init_build", "init_sinks"}
              /\ pc'[t] = "idle"
              /\ ret'.result = E_SUCCESS)
             => IF "svc" \in DOMAIN registry
                THEN /\ ret'.reused
                     /\ registry' = registry
                     /\ g_sinkAllocationCount' = g_sinkAllocationCount
                ELSE /\ ~ret'.reused
                     /\ "svc" \in DOMAIN registry'
                     /\ g_sinkAllocationCount'
                           = Len(registry'["svc"].sinks)]_vars

\* C36: one thread has built and registered the logger while the other
\* waited at the lock_guard, and the other then reused it
C36_SecondReused ==
    /\ ret.op = "Initialize"
    /\ ret.result = E_SUCCESS
    /\ ret.reused
    /\ "svc" \in DOMAIN registry
    /\ g_sinkAllocationCount = 2
    /\ \A t \in Threads : calls[t] = 1 /\ pc[t] = "idle"

\* C37: an Initialize that returns InvalidParameter leaves
\* ms_defaultInstance, the engine's registered loggers, the sink counter
\* and the logger counter as they were
C37_RejectedLeavesRegistry ==
    [][(ret'.op = "Initialize" /\ ret'.result = E_INVALID_PARAMETER)
          => /\ ms_defaultInstance' = ms_defaultInstance
             /\ registry' = registry
             /\ g_sinkAllocationCount' = g_sinkAllocationCount
             /\ ms_allocationCount' = ms_allocationCount]_vars

\* C37: Initialize turned a log-file path away as too long, with a default
\* logger in place
C37_PathRejected ==
    /\ ret.op = "Initialize"
    /\ ret.result = E_INVALID_PARAMETER
    /\ ret.appName # ""
    /\ ret.logDir # ""
    /\ ms_defaultInstance # NullPtr
    /\ DOMAIN registry # {}
    /\ g_sinkAllocationCount > 0

\* C38: the logger counter never exceeds 32 and no operation, Shutdown
\* included, lowers or resets it; at 32 every constructor throws
C38_CounterCappedAndMonotone ==
    /\ [](ms_allocationCount <= k_maxLoggerAllocations)
    /\ [][/\ ms_allocationCount' >= ms_allocationCount
          /\ (ms_allocationCount >= k_maxLoggerAllocations
              /\ ret'.op = "Logger" /\ ret' # ret) => ret'.threw]_vars

\* C38: the logger counter stands above its cap
C38_CounterAboveCap == ms_allocationCount > k_maxLoggerAllocations

\* C39: after a successful Initialize the level handed to the engine is one
\* of the seven enumerated levels 0..6, whatever the store holds under
\* log_level
C39_LevelEnumerated ==
    (ret.op = "Initialize" /\ ret.result = E_SUCCESS) => ret.level \in 0 .. 6

\* C39: the application section holds log_level 99, Initialize succeeded and
\* handed 99 to the engine
C39_LevelOutOfRange ==
    /\ ret.op = "Initialize"
    /\ ret.result = E_SUCCESS
    /\ "svc" \in DOMAIN m_configData
    /\ "log_level" \in DOMAIN m_configData["svc"]
    /\ m_configData["svc"]["log_level"] = "99"
    /\ ret.level = 99

====
